---- MODULE Spec2Model ----
(***************************************************************************)
(* Model of the quality scoring and encoding engine of my_proof            *)
(* (src/my_proof/proof_of_quality).                                        *)
(*                                                                         *)
(* Representation of Python values                                         *)
(*   float score x   the integer x * ONE, ONE = 255 * 1000, so that the    *)
(*                   grid values k/255 and the decimals n/1000 are both    *)
(*                   exact; on these inputs the IEEE double computation    *)
(*                   int(x * 255) agrees with the exact quotient.          *)
(*   str             a sequence of one-character strings                   *)
(*   dict            a function whose DOMAIN is the set of keys            *)
(*   raise           a result record with raised = TRUE and the message    *)
(***************************************************************************)
EXTENDS Integers, Sequences, FiniteSets, TLC

(***************************************************************************)
(* Generic helpers for Python built-ins                                    *)
(***************************************************************************)

\* Python's int(): truncation toward zero of the quotient a / b, b > 0
TruncDiv(a, b) == IF a >= 0 THEN a \div b ELSE -((-a) \div b)

Min2(a, b) == IF a <= b THEN a ELSE b

Max2(a, b) == IF a >= b THEN a ELSE b

\* the values of range(start, stop, step), step > 0, as a sequence
PyRange(start, stop, step) ==
    IF stop <= start THEN << >>
    ELSE [k \in 1..(((stop - start - 1) \div step) + 1) |-> start + (k - 1) * step]

\* the slice s[i:j] of a string (0-based, end-exclusive, clipped to the string)
PySlice(s, i, j) ==
    LET lo == Min2(Max2(i, 0), Len(s))
        hi == Min2(Max2(j, lo), Len(s))
    IN  [k \in 1..(hi - lo) |-> s[lo + k]]

Ok(v) == [raised |-> FALSE, value |-> v, error |-> ""]

Raise(msg) == [raised |-> TRUE, value |-> << >>, error |-> msg]

(***************************************************************************)
(* config.py                                                               *)
(***************************************************************************)

INTERESTING_FILES ==
    << "Retail.CartItems.1.csv",
       "Digital Items.csv",
       "Retail.OrderHistory.1.csv",
       "Retail.OrderHistory.2.csv",
       "Audible.PurchaseHistory.csv",
       "Audible.Library.csv",
       "Audible.MembershipBillings.csv",
       "PrimeVideo.ViewingHistory.csv" >>

FileNames == {INTERESTING_FILES[i] : i \in 1..Len(INTERESTING_FILES)}

\* number of categories
N == Len(INTERESTING_FILES)

(***************************************************************************)
(* Floats                                                                  *)
(***************************************************************************)

\* the float 1.0
ONE == 255 * 1000

\* the float k / 255 produced by post_process_decode
Over255(k) == k * (ONE \div 255)

\* the float n / 1000
Milli(n) == n * (ONE \div 1000)

(***************************************************************************)
(* Hexadecimal text: f"{score:02x}" and int(text, 16)                      *)
(***************************************************************************)

HexDigits == << "0", "1", "2", "3", "4", "5", "6", "7",
                "8", "9", "a", "b", "c", "d", "e", "f" >>

HexChars == {HexDigits[i] : i \in 1..16}

RECURSIVE HexOfUpper(_)
\* mutant of HexOf: the digits of f"{score:02X}"
HexOfUpper(n) ==
    LET up == << "0", "1", "2", "3", "4", "5", "6", "7",
                 "8", "9", "A", "B", "C", "D", "E", "F" >>
    IN  IF n < 16 THEN << up[n + 1] >>
        ELSE HexOfUpper(n \div 16) \o << up[(n % 16) + 1] >>

RECURSIVE HexOf(_)
\* the lowercase base-16 digits of n >= 0, most significant first
HexOf(n) == IF n < 16 THEN << HexDigits[n + 1] >>
            ELSE HexOf(n \div 16) \o << HexDigits[(n % 16) + 1] >>

\* mutant of Format02x: f"{score:x}", no zero padding
FormatNoPad(score) ==
    IF score < 0 THEN << "-" >> \o HexOf(-score) ELSE HexOf(score)

\* f"{score:02x}": sign, digits, zero-padded on the left to width 2
Format02x(score) ==
    LET body == IF score < 0 THEN << "-" >> \o HexOf(-score) ELSE HexOf(score)
    IN  IF Len(body) >= 2 THEN body
        ELSE IF score < 0 THEN << "-" >> \o << "0" >> \o Tail(body)
        ELSE << "0" >> \o body

HexValue(c) == CHOOSE d \in 0..15 : HexDigits[d + 1] = c

RECURSIVE ParseHex(_)
\* int(text, 16) for a non-empty text of hexadecimal digits
ParseHex(text) ==
    IF Len(text) = 0 THEN 0
    ELSE 16 * ParseHex(SubSeq(text, 1, Len(text) - 1)) + HexValue(text[Len(text)])

(***************************************************************************)
(* proof_of_quality/__init__.py: the codec                                 *)
(***************************************************************************)

\* mutant of quantize_scores: round(score * 255) instead of int(score * 255)
quantize_scores_round(scores) ==
    [i \in 1..Len(scores) |-> TruncDiv(2 * scores[i] * 255 + ONE, 2 * ONE)]

\* mutant of quantize_scores: the integer clamped into 0..255
quantize_scores_clamped(scores) ==
    [i \in 1..Len(scores) |->
        Max2(0, Min2(255, TruncDiv(scores[i] * 255, ONE)))]

\* quantize_scores: [int(score * 255) for score in scores]
quantize_scores(scores) ==
    [i \in 1..Len(scores) |-> TruncDiv(scores[i] * 255, ONE)]

RECURSIVE PackLoop(_, _, _)
\* one "for score in ..." loop of pack_scores, appending to packed_str
PackLoop(packed_str, scores, msg) ==
    IF Len(scores) = 0 THEN Ok(packed_str)
    ELSE IF ~(0 <= Head(scores) /\ Head(scores) <= 255) THEN Raise(msg)
    ELSE PackLoop(packed_str \o Format02x(Head(scores)), Tail(scores), msg)

ErrLength == "metadata_scores and validation_scores must be the same length"

ErrMetadataRange == "Metadata scores must be uint16 values between 0 and 255"

ErrValidationRange == "Validation scores must be uint16 values between 0 and 255"

RECURSIVE InterleaveLoop(_, _, _)
InterleaveLoop(packed_str, metadata_scores, validation_scores) ==
    IF Len(metadata_scores) = 0 THEN Ok(packed_str)
    ELSE IF ~(0 <= Head(metadata_scores) /\ Head(metadata_scores) <= 255)
         THEN Raise(ErrMetadataRange)
    ELSE IF ~(0 <= Head(validation_scores) /\ Head(validation_scores) <= 255)
         THEN Raise(ErrValidationRange)
    ELSE InterleaveLoop(packed_str \o Format02x(Head(metadata_scores))
                                   \o Format02x(Head(validation_scores)),
                        Tail(metadata_scores), Tail(validation_scores))

\* mutant of pack_scores: (metadata, validation) pairs interleaved
pack_scores_interleaved(metadata_scores, validation_scores) ==
    IF Len(metadata_scores) # Len(validation_scores) THEN Raise(ErrLength)
    ELSE InterleaveLoop(<< >>, metadata_scores, validation_scores)

\* mutant of pack_scores: the length check left out
pack_scores_unchecked(metadata_scores, validation_scores) ==
    LET first == PackLoop(<< >>, metadata_scores, ErrMetadataRange)
    IN  IF first.raised THEN first
        ELSE PackLoop(first.value, validation_scores, ErrValidationRange)

pack_scores(metadata_scores, validation_scores) ==
    IF Len(metadata_scores) # Len(validation_scores) THEN Raise(ErrLength)
    ELSE LET first == PackLoop(<< >>, metadata_scores, ErrMetadataRange)
         IN  IF first.raised THEN first
             ELSE PackLoop(first.value, validation_scores, ErrValidationRange)

\* unpack_scores: the pair (metadata_scores, validation_scores)
unpack_scores(packed_str) ==
    LET length == Len(packed_str)
        firstHalf == PyRange(0, length \div 2, 2)
        secondHalf == PyRange(length \div 2, length, 2)
    IN  << [k \in 1..Len(firstHalf) |->
               ParseHex(PySlice(packed_str, firstHalf[k], firstHalf[k] + 2))],
           [k \in 1..Len(secondHalf) |->
               ParseHex(PySlice(packed_str, secondHalf[k], secondHalf[k] + 2))] >>

\* mutant of OrderedScores: absent files skipped instead of scored 0.0
OrderedScoresPresentOnly(scores, which) ==
    LET present == {i \in 1..N : INTERESTING_FILES[i] \in DOMAIN scores}
        nth(k) == CHOOSE i \in present : Cardinality({j \in present : j < i}) = k - 1
    IN  [k \in 1..Cardinality(present) |-> scores[INTERESTING_FILES[nth(k)]][which]]

\* the ordered lists built by the first loop of post_process_scores
OrderedScores(scores, which) ==
    [i \in 1..N |-> IF INTERESTING_FILES[i] \in DOMAIN scores
                    THEN scores[INTERESTING_FILES[i]][which]
                    ELSE 0]

post_process_scores(scores) ==
    pack_scores(quantize_scores(OrderedScores(scores, 1)),
                quantize_scores(OrderedScores(scores, 2)))

\* mutant of post_process_decode: zero pairs kept
post_process_decode_unfiltered(packed_scores) ==
    LET unpacked == unpack_scores(packed_scores)
        zipped == 1..Min2(N, Min2(Len(unpacked[1]), Len(unpacked[2])))
    IN  [name \in {INTERESTING_FILES[i] : i \in zipped} |->
            LET i == CHOOSE j \in zipped : INTERESTING_FILES[j] = name
            IN  << Over255(unpacked[1][i]), Over255(unpacked[2][i]) >>]

post_process_decode(packed_scores) ==
    LET unpacked == unpack_scores(packed_scores)
        decoded_metadata_scores == [i \in 1..Len(unpacked[1]) |-> Over255(unpacked[1][i])]
        decoded_validation_scores == [i \in 1..Len(unpacked[2]) |-> Over255(unpacked[2][i])]
        zipped == 1..Min2(N, Min2(Len(decoded_metadata_scores), Len(decoded_validation_scores)))
        kept == {i \in zipped : decoded_metadata_scores[i] > 0 \/ decoded_validation_scores[i] > 0}
    IN  [name \in {INTERESTING_FILES[i] : i \in kept} |->
            LET i == CHOOSE j \in kept : INTERESTING_FILES[j] = name
            IN  << decoded_metadata_scores[i], decoded_validation_scores[i] >>]

(***************************************************************************)
(* config.py: the threshold profiles.  Amounts and hours are in hundredths *)
(* (metadata amounts are rounded to 2 decimals by the analyzers),          *)
(* SCORE_SCALING is in tenths.  A key a profile lacks is absent from       *)
(* Has, and validation_config.get(key, default) then yields the default.   *)
(***************************************************************************)

validation_config ==
    [ satori |->
        [ MIN_ORDERS |-> 1, MIN_TOTAL_AMOUNT |-> 500, MIN_UNIQUE_PRODUCTS |-> 1,
          THRESHOLD_SCORE |-> 10, SAMPLE_SIZE |-> 3,
          MIN_DATA_TIME |-> 0, MIN_PURCHASES_PER_WEEK |-> 0,
          MIN_ITEMS |-> 1, MIN_DIGITAL_ITEMS |-> 1, MIN_LIBRARY_ITEMS |-> 1,
          MIN_UNIQUE_AUDIOBOOKS |-> 1, MIN_PURCHASES |-> 1, MIN_BILLINGS |-> 1,
          MIN_VIEWING_SESSIONS |-> 1, MIN_TOTAL_HOURS |-> 50, MIN_UNIQUE_TITLES |-> 1,
          MIN_DATE_RANGE_DAYS |-> 1, MIN_WEBSITES |-> 1, MIN_PAYMENT_METHODS |-> 1,
          SCORE_SCALING |-> 12,
          Has |-> {"MIN_ORDERS", "MIN_TOTAL_AMOUNT", "MIN_UNIQUE_PRODUCTS",
                   "THRESHOLD_SCORE", "SAMPLE_SIZE", "MIN_ITEMS", "MIN_DIGITAL_ITEMS",
                   "MIN_LIBRARY_ITEMS", "MIN_UNIQUE_AUDIOBOOKS", "MIN_PURCHASES",
                   "MIN_BILLINGS", "MIN_VIEWING_SESSIONS", "MIN_TOTAL_HOURS",
                   "MIN_UNIQUE_TITLES", "MIN_DATE_RANGE_DAYS", "MIN_WEBSITES",
                   "MIN_PAYMENT_METHODS", "SCORE_SCALING"} ],
      mainnet |->
        [ MIN_ORDERS |-> 2, MIN_TOTAL_AMOUNT |-> 2000, MIN_UNIQUE_PRODUCTS |-> 2,
          THRESHOLD_SCORE |-> 15, SAMPLE_SIZE |-> 30,
          MIN_DATA_TIME |-> 365 * 5, MIN_PURCHASES_PER_WEEK |-> 3,
          MIN_ITEMS |-> 2, MIN_DIGITAL_ITEMS |-> 2, MIN_LIBRARY_ITEMS |-> 2,
          MIN_UNIQUE_AUDIOBOOKS |-> 2, MIN_PURCHASES |-> 2, MIN_BILLINGS |-> 1,
          MIN_VIEWING_SESSIONS |-> 2, MIN_TOTAL_HOURS |-> 100, MIN_UNIQUE_TITLES |-> 2,
          MIN_DATE_RANGE_DAYS |-> 7, MIN_WEBSITES |-> 1, MIN_PAYMENT_METHODS |-> 1,
          SCORE_SCALING |-> 25,
          Has |-> {"MIN_ORDERS", "MIN_TOTAL_AMOUNT", "MIN_UNIQUE_PRODUCTS",
                   "THRESHOLD_SCORE", "SAMPLE_SIZE", "MIN_DATA_TIME",
                   "MIN_PURCHASES_PER_WEEK", "MIN_ITEMS", "MIN_DIGITAL_ITEMS",
                   "MIN_LIBRARY_ITEMS", "MIN_UNIQUE_AUDIOBOOKS", "MIN_PURCHASES",
                   "MIN_BILLINGS", "MIN_VIEWING_SESSIONS", "MIN_TOTAL_HOURS",
                   "MIN_UNIQUE_TITLES", "MIN_DATE_RANGE_DAYS", "MIN_WEBSITES",
                   "MIN_PAYMENT_METHODS", "SCORE_SCALING"} ] ]

Networks == {"satori", "mainnet"}

\* get_validation_config(config): validation_config[config['network']]
get_validation_config(config) == validation_config[config.network]

ConfigGetNoDefault(cfg, key, default) == IF key \in cfg.Has THEN cfg[key] ELSE 0

\* validation_config.get(key, default)
ConfigGet(cfg, key, default) == IF key \in cfg.Has THEN cfg[key] ELSE default

(***************************************************************************)
(* utils.py: logarithmic scores.  np.log1p is modelled in fixed point:     *)
(* Log2Fix(a, b) is log2(a / b) * 2^FracBits, rounded down, computed by    *)
(* the shift-and-square method on a mantissa of MantBits bits; a quotient  *)
(* of two logarithms is formed as in the code, to a resolution of 1/1000.  *)
(***************************************************************************)

FracBits == 12

MantBits == 12

Pow2(n) == 2 ^ n

RECURSIVE Log2Int(_, _)
\* the largest e with b * 2^e <= a, for a >= b > 0
Log2Int(a, b) == IF 2 * b <= a THEN 1 + Log2Int(a, 2 * b) ELSE 0

RECURSIVE Log2Frac(_, _)
\* bits further fractional bits of log2 of the mantissa m in [1, 2)
Log2Frac(m, bits) ==
    IF bits = 0 THEN 0
    ELSE LET sq == (m * m) \div Pow2(MantBits)
         IN  IF sq >= 2 * Pow2(MantBits)
             THEN Pow2(bits - 1) + Log2Frac(sq \div 2, bits - 1)
             ELSE Log2Frac(sq, bits - 1)

Log2Fix(a, b) ==
    LET e == Log2Int(a, b)
        m == (a * Pow2(MantBits)) \div (b * Pow2(e))
    IN  e * Pow2(FracBits) + Log2Frac(m, FracBits)

\* the scaled logarithm without "max(0.0, min(1.0, log_score))"
calculate_log_score_unclamped(value, min_value, cfg) ==
    IF value <= 0 \/ min_value <= 0 THEN 0
    ELSE LET score_scaling == ConfigGet(cfg, "SCORE_SCALING", 15)
             num == Log2Fix(min_value + value, min_value) * score_scaling
             den == Log2Fix(1 + 10, 1) * 10
         IN  Milli((num * 1000) \div den)

\* calculate_log_score(value, min_value, validation_config), value and
\* min_value in the same unit
calculate_log_score(value, min_value, cfg) ==
    IF value <= 0 \/ min_value <= 0 THEN 0
    ELSE LET score_scaling == ConfigGet(cfg, "SCORE_SCALING", 15)
             num == Log2Fix(min_value + value, min_value) * score_scaling
             den == Log2Fix(1 + 10, 1) * 10
         IN  IF num >= den THEN ONE ELSE Milli((num * 1000) \div den)

\* datetime.now(), as a day number; dates are day numbers relative to it
current_date == 0

NoDate == << >>

Date(day) == << day >>

\* a decay that is linear in the age and does not stop at 0
calculate_time_weight_linear(date_range) ==
    IF date_range.latest = NoDate THEN << 0, 0 >>
    ELSE LET age_in_days == current_date - date_range.latest[1]
         IN  IF age_in_days < 0 THEN << 0, age_in_days >>
             ELSE << 1000 - (age_in_days * 1000) \div (365 * 4), age_in_days >>

\* calculate_time_weight(date_range): the pair (weight, age_in_days), the
\* weight in thousandths
calculate_time_weight(date_range) ==
    IF date_range.latest = NoDate THEN << 0, 0 >>
    ELSE LET age_in_days == current_date - date_range.latest[1]
             max_age_days == 365 * 4
             num == Log2Fix(365 + age_in_days, 365)
             den == Log2Fix(365 + max_age_days, 365)
         IN  IF age_in_days < 0 THEN << 0, age_in_days >>
             ELSE IF num >= den THEN << 0, age_in_days >>
             ELSE << ((den - num) * 1000) \div den, age_in_days >>

(***************************************************************************)
(* score_calculators.py.  A CategoryMetadata is a record with the fields   *)
(* the calculators read: counts as integers, amounts and hours in          *)
(* hundredths, a Counter by the count of the one key that is read          *)
(* (cart_lists_active, order_statuses_Closed, downloaded_Yes) or by its    *)
(* number of keys (websites, payment_methods, purchase_types,              *)
(* devices_used), gift_orders_percentage in hundredths of a percent, and   *)
(* date_range = [earliest, latest], each NoDate or Date(day).              *)
(***************************************************************************)

HasDateRange(metadata) ==
    metadata.date_range.earliest # NoDate /\ metadata.date_range.latest # NoDate

\* (latest - earliest).days
DateRangeDays(metadata) ==
    metadata.date_range.latest[1] - metadata.date_range.earliest[1]

\* date_range_score: 0 unless both ends of the date range are present
DateRangeScore(metadata, min_date_range_days, cfg) ==
    IF HasDateRange(metadata)
    THEN calculate_log_score(DateRangeDays(metadata), min_date_range_days, cfg)
    ELSE 0

RECURSIVE SumProducts(_)
SumProducts(terms) ==
    IF Len(terms) = 0 THEN 0
    ELSE Head(terms)[1] * Head(terms)[2] + SumProducts(Tail(terms))

\* the weighted sum of sub-scores, weights in hundredths, then "score *= time_weight"
CombinedScore(terms, metadata) ==
    ((SumProducts(terms) \div 100) * calculate_time_weight(metadata.date_range)[1]) \div 1000

MeetsThresholdAlways(score, threshold_score) == TRUE

\* score >= threshold_score/100
MeetsThreshold(score, threshold_score) == score * 100 >= threshold_score * ONE

ErrUnbound == "UnboundLocalError: date_range_days"

\* the closing "is_valid = (... and date_range_days >= min_date_range_days and
\* score >= threshold_score/100)" of a calculator whose date_range_days is
\* assigned only when the date range is present; counts_ok stands for the
\* conjuncts evaluated before date_range_days is read
ScoreResult(counts_ok, metadata, min_date_range_days, score, threshold_score) ==
    IF ~counts_ok
    THEN Ok([is_valid |-> FALSE, score |-> score, reasons |-> << >>])
    ELSE IF ~HasDateRange(metadata) THEN Raise(ErrUnbound)
    ELSE Ok([is_valid |-> /\ DateRangeDays(metadata) >= min_date_range_days
                          /\ MeetsThreshold(score, threshold_score),
             score |-> score, reasons |-> << >>])

\* the terms of the weighted sum of calculate_cart_items_score: each
\* sub-score with its weight in hundredths
cart_items_terms(metadata, cfg) ==
    LET min_items == ConfigGet(cfg, "MIN_ITEMS", 5)
        min_unique_products == ConfigGet(cfg, "MIN_UNIQUE_PRODUCTS", 3)
        min_date_range_days == ConfigGet(cfg, "MIN_DATE_RANGE_DAYS", 30)
        num_items_score == calculate_log_score(metadata.num_items, min_items, cfg)
        unique_products_score ==
            calculate_log_score(metadata.unique_products, min_unique_products, cfg)
        date_range_score == DateRangeScore(metadata, min_date_range_days, cfg)
        active_ratio_score ==
            IF metadata.num_items > 0
            THEN (metadata.cart_lists_active * ONE) \div metadata.num_items
            ELSE 0
    IN  << << num_items_score, 30 >>,
           << unique_products_score, 30 >>,
           << date_range_score, 20 >>,
           << active_ratio_score, 20 >> >>

calculate_cart_items_score(metadata, cfg) ==
    LET min_items == ConfigGet(cfg, "MIN_ITEMS", 5)
        min_unique_products == ConfigGet(cfg, "MIN_UNIQUE_PRODUCTS", 3)
        min_date_range_days == ConfigGet(cfg, "MIN_DATE_RANGE_DAYS", 30)
        threshold_score == cfg.THRESHOLD_SCORE
        score == CombinedScore(cart_items_terms(metadata, cfg), metadata)
    IN  ScoreResult(/\ metadata.num_items >= min_items
                    /\ metadata.unique_products >= min_unique_products,
                    metadata, min_date_range_days, score, threshold_score)

\* the terms of the weighted sum of calculate_digital_items_score: each
\* sub-score with its weight in hundredths
digital_items_terms(metadata, cfg) ==
    LET min_items == ConfigGet(cfg, "MIN_DIGITAL_ITEMS", 3)
        min_unique_products == ConfigGet(cfg, "MIN_UNIQUE_PRODUCTS", 2)
        min_total_amount == ConfigGet(cfg, "MIN_TOTAL_AMOUNT", 5000)
        num_items_score == calculate_log_score(metadata.num_items, min_items, cfg)
        unique_products_score ==
            calculate_log_score(metadata.unique_products, min_unique_products, cfg)
        total_amount_score ==
            calculate_log_score(metadata.total_amount, min_total_amount, cfg)
    IN  << << num_items_score, 30 >>,
           << unique_products_score, 30 >>,
           << total_amount_score, 40 >> >>

calculate_digital_items_score(metadata, cfg) ==
    LET min_items == ConfigGet(cfg, "MIN_DIGITAL_ITEMS", 3)
        min_unique_products == ConfigGet(cfg, "MIN_UNIQUE_PRODUCTS", 2)
        min_total_amount == ConfigGet(cfg, "MIN_TOTAL_AMOUNT", 5000)
        threshold_score == cfg.THRESHOLD_SCORE
        score == CombinedScore(digital_items_terms(metadata, cfg), metadata)
    IN  Ok([is_valid |-> /\ metadata.num_items >= min_items
                         /\ metadata.unique_products >= min_unique_products
                         /\ metadata.total_amount >= min_total_amount
                         /\ MeetsThreshold(score, threshold_score),
            score |-> score, reasons |-> << >>])

\* the terms of the weighted sum of calculate_retail_order_history_score: each
\* sub-score with its weight in hundredths
retail_order_history_terms(metadata, cfg) ==
    LET min_orders == ConfigGet(cfg, "MIN_ORDERS", 5)
        min_total_amount == ConfigGet(cfg, "MIN_TOTAL_AMOUNT", 10000)
        min_unique_products == ConfigGet(cfg, "MIN_UNIQUE_PRODUCTS", 3)
        min_date_range_days == ConfigGet(cfg, "MIN_DATE_RANGE_DAYS", 30)
        min_websites == ConfigGet(cfg, "MIN_WEBSITES", 1)
        min_payment_methods == ConfigGet(cfg, "MIN_PAYMENT_METHODS", 1)
        date_range_days == IF HasDateRange(metadata) THEN DateRangeDays(metadata) ELSE 0
        num_orders_score == calculate_log_score(metadata.num_orders, min_orders, cfg)
        total_amount_score ==
            calculate_log_score(metadata.total_amount, min_total_amount, cfg)
        unique_products_score ==
            calculate_log_score(metadata.unique_products, min_unique_products, cfg)
        websites_score == calculate_log_score(metadata.websites, min_websites, cfg)
        payment_methods_score ==
            calculate_log_score(metadata.payment_methods, min_payment_methods, cfg)
        date_range_score ==
            IF HasDateRange(metadata)
            THEN calculate_log_score(date_range_days, min_date_range_days, cfg)
            ELSE 0
        completion_rate ==
            IF metadata.num_orders > 0
            THEN (metadata.order_statuses_Closed * ONE) \div metadata.num_orders
            ELSE 0
        gift_orders_rate ==
            Min2((metadata.gift_orders_percentage * (ONE \div 1000)) \div 10, ONE)
    IN  << << num_orders_score, 20 >>,
           << total_amount_score, 20 >>,
           << unique_products_score, 20 >>,
           << date_range_score, 10 >>,
           << websites_score, 10 >>,
           << payment_methods_score, 10 >>,
           << completion_rate, 5 >>,
           << gift_orders_rate, 5 >> >>

calculate_retail_order_history_score(metadata, cfg) ==
    LET min_orders == ConfigGet(cfg, "MIN_ORDERS", 5)
        min_total_amount == ConfigGet(cfg, "MIN_TOTAL_AMOUNT", 10000)
        min_unique_products == ConfigGet(cfg, "MIN_UNIQUE_PRODUCTS", 3)
        min_date_range_days == ConfigGet(cfg, "MIN_DATE_RANGE_DAYS", 30)
        threshold_score == cfg.THRESHOLD_SCORE
        min_data_time == ConfigGet(cfg, "MIN_DATA_TIME", 365 * 5)
        min_purchases_per_week == ConfigGet(cfg, "MIN_PURCHASES_PER_WEEK", 3)
        date_range_days == IF HasDateRange(metadata) THEN DateRangeDays(metadata) ELSE 0
        \* purchases_per_week < min_purchases_per_week, with
        \* purchases_per_week = num_orders / (date_range_days / 7), the weeks
        \* being 1 when date_range_days is 0, and 0 without a date range
        cadence_below ==
            IF ~HasDateRange(metadata) THEN 0 < min_purchases_per_week
            ELSE IF date_range_days > 0
                 THEN 7 * metadata.num_orders < min_purchases_per_week * date_range_days
                 ELSE metadata.num_orders < min_purchases_per_week
        span_below == date_range_days < min_data_time
        score == CombinedScore(retail_order_history_terms(metadata, cfg), metadata)
    IN  IF span_below \/ cadence_below
        THEN Ok([is_valid |-> FALSE, score |-> 0,
                 reasons |-> << IF span_below THEN "Date range below minimum" ELSE "None",
                                IF cadence_below THEN "Purchases per week below minimum"
                                                 ELSE "None" >>])
        ELSE Ok([is_valid |-> /\ metadata.num_orders >= min_orders
                              /\ metadata.total_amount >= min_total_amount
                              /\ metadata.unique_products >= min_unique_products
                              /\ date_range_days >= min_date_range_days
                              /\ MeetsThreshold(score, threshold_score),
                 score |-> score, reasons |-> << >>])

\* the terms of the weighted sum of calculate_audible_purchase_history_score: each
\* sub-score with its weight in hundredths
audible_purchase_history_terms(metadata, cfg) ==
    LET min_purchases == ConfigGet(cfg, "MIN_PURCHASES", 5)
        min_total_amount == ConfigGet(cfg, "MIN_TOTAL_AMOUNT", 7500)
        min_unique_audiobooks == ConfigGet(cfg, "MIN_UNIQUE_AUDIOBOOKS", 3)
        min_date_range_days == ConfigGet(cfg, "MIN_DATE_RANGE_DAYS", 60)
        num_purchases_score ==
            calculate_log_score(metadata.num_purchases, min_purchases, cfg)
        total_amount_score ==
            calculate_log_score(metadata.total_amount_spent, min_total_amount, cfg)
        unique_audiobooks_score ==
            calculate_log_score(metadata.unique_audiobooks, min_unique_audiobooks, cfg)
        date_range_score == DateRangeScore(metadata, min_date_range_days, cfg)
        purchase_types_score == calculate_log_score(metadata.purchase_types, 2, cfg)
    IN  << << num_purchases_score, 25 >>,
           << total_amount_score, 30 >>,
           << unique_audiobooks_score, 25 >>,
           << date_range_score, 10 >>,
           << purchase_types_score, 10 >> >>

calculate_audible_purchase_history_score(metadata, cfg) ==
    LET min_purchases == ConfigGet(cfg, "MIN_PURCHASES", 5)
        min_total_amount == ConfigGet(cfg, "MIN_TOTAL_AMOUNT", 7500)
        min_unique_audiobooks == ConfigGet(cfg, "MIN_UNIQUE_AUDIOBOOKS", 3)
        min_date_range_days == ConfigGet(cfg, "MIN_DATE_RANGE_DAYS", 60)
        threshold_score == cfg.THRESHOLD_SCORE
        score == CombinedScore(audible_purchase_history_terms(metadata, cfg), metadata)
    IN  ScoreResult(/\ metadata.num_purchases >= min_purchases
                    /\ metadata.total_amount_spent >= min_total_amount
                    /\ metadata.unique_audiobooks >= min_unique_audiobooks,
                    metadata, min_date_range_days, score, threshold_score)

\* the terms of the weighted sum of calculate_audible_library_score: each
\* sub-score with its weight in hundredths
audible_library_terms(metadata, cfg) ==
    LET min_library_items == ConfigGet(cfg, "MIN_LIBRARY_ITEMS", 10)
        min_unique_audiobooks == ConfigGet(cfg, "MIN_UNIQUE_AUDIOBOOKS", 5)
        min_date_range_days == ConfigGet(cfg, "MIN_DATE_RANGE_DAYS", 90)
        num_items_score ==
            calculate_log_score(metadata.num_items_in_library, min_library_items, cfg)
        unique_audiobooks_score ==
            calculate_log_score(metadata.unique_audiobooks, min_unique_audiobooks, cfg)
        date_range_score == DateRangeScore(metadata, min_date_range_days, cfg)
        downloaded_ratio ==
            IF metadata.num_items_in_library > 0
            THEN (metadata.downloaded_Yes * ONE) \div metadata.num_items_in_library
            ELSE 0
    IN  << << num_items_score, 40 >>,
           << unique_audiobooks_score, 30 >>,
           << date_range_score, 20 >>,
           << downloaded_ratio, 10 >> >>

calculate_audible_library_score(metadata, cfg) ==
    LET min_library_items == ConfigGet(cfg, "MIN_LIBRARY_ITEMS", 10)
        min_unique_audiobooks == ConfigGet(cfg, "MIN_UNIQUE_AUDIOBOOKS", 5)
        min_date_range_days == ConfigGet(cfg, "MIN_DATE_RANGE_DAYS", 90)
        threshold_score == cfg.THRESHOLD_SCORE
        score == CombinedScore(audible_library_terms(metadata, cfg), metadata)
    IN  ScoreResult(/\ metadata.num_items_in_library >= min_library_items
                    /\ metadata.unique_audiobooks >= min_unique_audiobooks,
                    metadata, min_date_range_days, score, threshold_score)

\* date_range_score weighs 0.4 instead of 0.2
audible_membership_billings_terms_heavy(metadata, cfg) ==
    LET min_billings == ConfigGet(cfg, "MIN_BILLINGS", 3)
        min_total_amount == ConfigGet(cfg, "MIN_TOTAL_AMOUNT", 3000)
        min_date_range_days == ConfigGet(cfg, "MIN_DATE_RANGE_DAYS", 90)
        num_billings_score == calculate_log_score(metadata.num_billings, min_billings, cfg)
        total_amount_score ==
            calculate_log_score(metadata.total_amount_spent, min_total_amount, cfg)
        date_range_score == DateRangeScore(metadata, min_date_range_days, cfg)
    IN  << << num_billings_score, 40 >>,
           << total_amount_score, 40 >>,
           << date_range_score, 40 >> >>

\* the terms of the weighted sum of
\* calculate_audible_membership_billings_score: each sub-score with its
\* weight in hundredths
audible_membership_billings_terms(metadata, cfg) ==
    LET min_billings == ConfigGet(cfg, "MIN_BILLINGS", 3)
        min_total_amount == ConfigGet(cfg, "MIN_TOTAL_AMOUNT", 3000)
        min_date_range_days == ConfigGet(cfg, "MIN_DATE_RANGE_DAYS", 90)
        num_billings_score == calculate_log_score(metadata.num_billings, min_billings, cfg)
        total_amount_score ==
            calculate_log_score(metadata.total_amount_spent, min_total_amount, cfg)
        date_range_score == DateRangeScore(metadata, min_date_range_days, cfg)
    IN  << << num_billings_score, 40 >>,
           << total_amount_score, 40 >>,
           << date_range_score, 20 >> >>

calculate_audible_membership_billings_score(metadata, cfg) ==
    LET min_billings == ConfigGet(cfg, "MIN_BILLINGS", 3)
        min_total_amount == ConfigGet(cfg, "MIN_TOTAL_AMOUNT", 3000)
        min_date_range_days == ConfigGet(cfg, "MIN_DATE_RANGE_DAYS", 90)
        threshold_score == cfg.THRESHOLD_SCORE
        score == CombinedScore(audible_membership_billings_terms(metadata, cfg), metadata)
    IN  ScoreResult(/\ metadata.num_billings >= min_billings
                    /\ metadata.total_amount_spent >= min_total_amount,
                    metadata, min_date_range_days, score, threshold_score)

\* the terms of the weighted sum of calculate_prime_video_viewing_history_score: each
\* sub-score with its weight in hundredths
prime_video_viewing_history_terms(metadata, cfg) ==
    LET min_viewing_sessions == ConfigGet(cfg, "MIN_VIEWING_SESSIONS", 5)
        min_total_hours == ConfigGet(cfg, "MIN_TOTAL_HOURS", 1000)
        min_unique_titles == ConfigGet(cfg, "MIN_UNIQUE_TITLES", 3)
        min_date_range_days == ConfigGet(cfg, "MIN_DATE_RANGE_DAYS", 60)
        sessions_score ==
            calculate_log_score(metadata.num_viewing_sessions, min_viewing_sessions, cfg)
        hours_score ==
            calculate_log_score(metadata.total_hours_viewed, min_total_hours, cfg)
        titles_score ==
            calculate_log_score(metadata.unique_titles_watched, min_unique_titles, cfg)
        date_range_score == DateRangeScore(metadata, min_date_range_days, cfg)
        devices_score == calculate_log_score(metadata.devices_used, 2, cfg)
    IN  << << sessions_score, 25 >>,
           << hours_score, 25 >>,
           << titles_score, 25 >>,
           << date_range_score, 15 >>,
           << devices_score, 10 >> >>

calculate_prime_video_viewing_history_score(metadata, cfg) ==
    LET min_viewing_sessions == ConfigGet(cfg, "MIN_VIEWING_SESSIONS", 5)
        min_total_hours == ConfigGet(cfg, "MIN_TOTAL_HOURS", 1000)
        min_unique_titles == ConfigGet(cfg, "MIN_UNIQUE_TITLES", 3)
        min_date_range_days == ConfigGet(cfg, "MIN_DATE_RANGE_DAYS", 60)
        threshold_score == cfg.THRESHOLD_SCORE
        score == CombinedScore(prime_video_viewing_history_terms(metadata, cfg), metadata)
    IN  ScoreResult(/\ metadata.num_viewing_sessions >= min_viewing_sessions
                    /\ metadata.total_hours_viewed >= min_total_hours
                    /\ metadata.unique_titles_watched >= min_unique_titles,
                    metadata, min_date_range_days, score, threshold_score)

calculate_score(file_name, metadata, cfg) ==
    CASE file_name = "Retail.CartItems.1.csv" ->
            calculate_cart_items_score(metadata, cfg)
      [] file_name = "Digital Items.csv" ->
            calculate_digital_items_score(metadata, cfg)
      [] file_name \in {"Retail.OrderHistory.1.csv", "Retail.OrderHistory.2.csv"} ->
            calculate_retail_order_history_score(metadata, cfg)
      [] file_name = "Audible.PurchaseHistory.csv" ->
            calculate_audible_purchase_history_score(metadata, cfg)
      [] file_name = "Audible.Library.csv" ->
            calculate_audible_library_score(metadata, cfg)
      [] file_name = "Audible.MembershipBillings.csv" ->
            calculate_audible_membership_billings_score(metadata, cfg)
      [] file_name = "PrimeVideo.ViewingHistory.csv" ->
            calculate_prime_video_viewing_history_score(metadata, cfg)
      [] OTHER -> Raise("ValueError: Unknown file type")

(***************************************************************************)
(* validators.py and the aggregation of proof_of_quality/__init__.py       *)
(***************************************************************************)

RECURSIVE SumSeq(_)
SumSeq(list) == IF Len(list) = 0 THEN 0 ELSE Head(list) + SumSeq(Tail(list))

\* the ValidationScore of process_single_file when validation is skipped,
\* and of validate_sample when a reply fails to parse
NoValidation == [is_valid |-> FALSE, score |-> 0]

\* the closing lines of validate_sample: avg_score = sum(scores) / len(scores)
AverageResult(scores, cfg) ==
    IF Len(scores) = 0 THEN Raise("ZeroDivisionError: division by zero")
    ELSE LET avg_score == TruncDiv(SumSeq(scores), Len(scores))
         IN  Ok([is_valid |-> MeetsThreshold(avg_score, cfg.THRESHOLD_SCORE),
                 score |-> avg_score])

\* what "score_data = json.loads(score_json); int(score_data["score"]) / 100.0"
\* does with a reply: the score, or the exception raised
ParseReply(reply) ==
    CASE reply.kind = "score" -> Ok(reply.n * (ONE \div 100))
      [] reply.kind = "not_json" -> Raise("JSONDecodeError")
      [] reply.kind = "no_score_key" -> Raise("KeyError")
      [] reply.kind = "score_not_a_number" -> Raise("ValueError")
      [] reply.kind = "not_an_object" -> Raise("TypeError")
      [] reply.kind = "null_score" -> Raise("TypeError")

CaughtOnlyKeyError == {"KeyError", "ValueError"}

\* except (json.JSONDecodeError, KeyError, ValueError)
CaughtByValidateSample == {"JSONDecodeError", "KeyError", "ValueError"}

\* mutant of calculate_weighted_scores: a score whose is_valid is false is
\* carried forward as 0
calculate_weighted_scores_valid_only(scores) ==
    [name \in {INTERESTING_FILES[i] : i \in {j \in 1..N : INTERESTING_FILES[j] \in DOMAIN scores}} |->
        << IF scores[name].metadata_score.is_valid
           THEN scores[name].metadata_score.score ELSE 0,
           IF scores[name].validation_openai_score.is_valid
           THEN scores[name].validation_openai_score.score ELSE 0 >>]

\* calculate_weighted_scores: (metadata score, validation score) per file of
\* INTERESTING_FILES found in scores
calculate_weighted_scores(scores) ==
    [name \in {INTERESTING_FILES[i] : i \in {j \in 1..N : INTERESTING_FILES[j] \in DOMAIN scores}} |->
        << scores[name].metadata_score.score,
           scores[name].validation_openai_score.score >>]

(***************************************************************************)
(* State                                                                   *)
(***************************************************************************)

VARIABLES
    pc,                    \* position of the test or run in progress
    metadata_scores,       \* test_pack_scores: first list given to pack_scores
    validation_scores,     \* test_pack_scores: second list given to pack_scores
    packed_str,            \* test_pack_scores: result of pack_scores
    unpacked,              \* test_pack_scores: result of unpack_scores
    test_scores,           \* test_post_process_scores: the scores dictionary
    post_processed_scores, \* test_post_process_scores: result of post_process_scores
    decoded_scores,        \* test_post_process_scores: result of post_process_decode
    pack_args,             \* the two lists of the latest call of pack_scores
    config,                \* Proof.generate: network and whether OPENAI_API_KEY is set
    authenticity,          \* Proof.generate: what proof_of_authenticity returned or raised
    uniqueness,            \* Proof.generate: what proof_of_uniqueness returned or raised
    saved_minhashes,       \* number of fingerprints client.save_minhash has saved
    csv_files,             \* proof_of_quality: the paths find_csv_files returned
    scores,                \* proof_of_quality: file name -> scores of process_single_file
    file_scores,           \* path -> what process_single_file returned for it
    csv_file,              \* process_single_file: the path being validated
    file_data,             \* process_single_file: len(file_data) of that file
    metadata_score,        \* process_single_file: its ComponentScore
    sample_size,           \* validate_sample: len(sample)
    sample_scores,         \* validate_sample: the list scores
    score_json,            \* validate_sample: the latest evaluator reply
    category_scores,       \* proof_of_quality: result of calculate_weighted_scores
    run_result,            \* proof_of_quality: the record returned, or the exception
    proof_response,        \* Proof.generate: the ProofResponse returned
    call,                  \* a direct call of a scoring function: its arguments
    returned               \* the value that call returned

codecVars == << metadata_scores, validation_scores, packed_str, unpacked,
                test_scores, post_processed_scores, decoded_scores >>

runVars == << config, authenticity, uniqueness, saved_minhashes, csv_files,
              scores, file_scores, csv_file, file_data, metadata_score,
              sample_size, sample_scores, score_json, category_scores, run_result,
              proof_response >>

calcVars == << call, returned >>

vars == << pc, codecVars, pack_args, runVars, calcVars >>

(***************************************************************************)
(* Inputs of the codec tests                                               *)
(***************************************************************************)

\* longest list handed to pack_scores directly
MaxListLen == 2

\* most categories of a dictionary whose pairs are chosen independently
MaxPresent == 2

\* integers handed to pack_scores directly: inside and just outside 0..255
IntValues == {-1, 0, 10, 255, 256}

\* float scores: 0, below one quantization step, on the grid k/255, off the
\* grid, 1, above 1, below 0, and below 0 by less than one step
ScoreValues == {0, Milli(1), Over255(1), Over255(100), Milli(500), ONE,
                Milli(1500), -Milli(500), -Milli(1)}

\* pairs of the dictionaries whose categories differ
MixedPairs == { << Milli(500), 0 >>, << ONE, 0 >>, << Milli(500), Milli(600) >>,
                << 0, 0 >>, << Milli(1), Milli(300) >>, << Milli(221), ONE >> }

IntLists == UNION {[1..n -> IntValues] : n \in 0..MaxListLen}

\* every subset of the categories with one pair, and up to MaxPresent
\* categories with independent pairs
ScoreDicts ==
    (UNION {[A -> {p} ] : A \in SUBSET FileNames, p \in ScoreValues \X ScoreValues})
    \cup
    (UNION {[A -> MixedPairs] : A \in {B \in SUBSET FileNames : Cardinality(B) <= MaxPresent}})

NoResult == Ok(<< >>)

EmptyDict == [name \in {} |-> << 0, 0 >>]

(***************************************************************************)
(* tests.py test_pack_scores and __init__.py test_post_process_scores      *)
(***************************************************************************)

\* pathlib.Path: a file called name in the sub-folder number folder
Path(folder, name) == [folder |-> folder, name |-> name]

NoFile == Path(0, "")

\* Proof.generate has not returned
NoResponse == [valid |-> FALSE]

\* no evaluator reply received yet
NoReply == [kind |-> "", n |-> 0]

NoScore == [is_valid |-> FALSE, score |-> 0, reasons |-> << >>]

\* proof_of_authenticity or proof_of_uniqueness has not been called
NotCalled == Ok(-1)

\* the variables of a run of proof_of_quality before it starts
RunIdle ==
    /\ authenticity = NotCalled
    /\ uniqueness = NotCalled
    /\ saved_minhashes = 0
    /\ scores = EmptyDict
    /\ file_scores = EmptyDict
    /\ csv_file = NoFile
    /\ file_data = 0
    /\ metadata_score = NoScore
    /\ sample_size = 0
    /\ sample_scores = << >>
    /\ score_json = NoReply
    /\ category_scores = EmptyDict
    /\ run_result = NoResult
    /\ proof_response = NoResponse

NoCall == [fn |-> ""]

\* no scoring function is called directly
CalcIdle ==
    /\ call = NoCall
    /\ returned = NoResult

InitCodec ==
    /\ pc \in {"test_pack_scores", "test_post_process_scores"}
    /\ config = [network |-> "satori", has_key |-> FALSE]
    /\ csv_files = {}
    /\ RunIdle
    /\ CalcIdle
    /\ packed_str = NoResult
    /\ unpacked = << << >>, << >> >>
    /\ post_processed_scores = NoResult
    /\ decoded_scores = EmptyDict
    /\ pack_args = << << >>, << >> >>
    /\ IF pc = "test_pack_scores"
       THEN /\ metadata_scores \in IntLists
            /\ validation_scores \in IntLists
            /\ test_scores = EmptyDict
       ELSE /\ metadata_scores = << >>
            /\ validation_scores = << >>
            /\ test_scores \in ScoreDicts

\* tests.py line 26: packed_str = pack_scores(metadata_scores, validation_scores)
PackScores ==
    /\ pc = "test_pack_scores"
    /\ packed_str' = pack_scores(metadata_scores, validation_scores)
    /\ pack_args' = << metadata_scores, validation_scores >>
    /\ pc' = IF packed_str'.raised THEN "pack_raised" ELSE "packed"
    /\ UNCHANGED << metadata_scores, validation_scores, unpacked,
                    test_scores, post_processed_scores, decoded_scores >>
    /\ UNCHANGED << runVars, calcVars >>

\* tests.py line 27: unpack_scores(packed_str)
UnpackScores ==
    /\ pc = "packed"
    /\ unpacked' = unpack_scores(packed_str.value)
    /\ pc' = "unpacked"
    /\ UNCHANGED << metadata_scores, validation_scores, packed_str,
                    test_scores, post_processed_scores, decoded_scores, pack_args >>
    /\ UNCHANGED << runVars, calcVars >>

\* __init__.py line 359: post_processed_scores = post_process_scores(test_scores)
PostProcessScores ==
    /\ pc = "test_post_process_scores"
    /\ post_processed_scores' = post_process_scores(test_scores)
    /\ pack_args' = << quantize_scores(OrderedScores(test_scores, 1)),
                       quantize_scores(OrderedScores(test_scores, 2)) >>
    /\ pc' = IF post_processed_scores'.raised THEN "encode_raised" ELSE "encoded"
    /\ UNCHANGED << metadata_scores, validation_scores, packed_str, unpacked,
                    test_scores, decoded_scores >>
    /\ UNCHANGED << runVars, calcVars >>

\* __init__.py line 360: decoded_scores = post_process_decode(post_processed_scores)
PostProcessDecode ==
    /\ pc = "encoded"
    /\ decoded_scores' = post_process_decode(post_processed_scores.value)
    /\ pc' = "decoded"
    /\ UNCHANGED << metadata_scores, validation_scores, packed_str, unpacked,
                    test_scores, post_processed_scores, pack_args >>
    /\ UNCHANGED << runVars, calcVars >>

NextCodec == PackScores \/ UnpackScores \/ PostProcessScores \/ PostProcessDecode

SpecCodec == InitCodec /\ [][NextCodec]_vars

(***************************************************************************)
(* Inputs of a run of proof_of_quality                                     *)
(***************************************************************************)

\* most files find_csv_files returns in a run
MaxFiles == 2

\* the names of the files that find_csv_files returns in a run are drawn
\* from these: one with a date-span minimum, one without, and one with the
\* global floors
RunFiles == {"Retail.CartItems.1.csv", "Digital Items.csv",
             "Retail.OrderHistory.1.csv"}

\* the paths find_csv_files can return: it walks every sub-folder of
\* input_extracted_dir and keeps a file by its name alone, so a second
\* sub-folder can hold a file of a name already found in the first
RunPaths == {Path(1, name) : name \in RunFiles} \cup {Path(2, "Digital Items.csv")}

\* most rows of a sample the model follows through the evaluator; a longer
\* sample is cut to this length
MaxSampleRows == 3

DateRange(earliest, latest) == [earliest |-> Date(earliest), latest |-> Date(latest)]

NoDateRange == [earliest |-> NoDate, latest |-> NoDate]

CartItems(n, u, active, dr) ==
    [num_items |-> n, unique_products |-> u, cart_lists_active |-> active, date_range |-> dr]

DigitalItems(n, u, amount, dr) ==
    [num_items |-> n, unique_products |-> u, total_amount |-> amount, date_range |-> dr]

OrderHistory(n, amount, u, closed, gift, dr) ==
    [num_orders |-> n, total_amount |-> amount, unique_products |-> u,
     websites |-> IF n > 0 THEN 1 ELSE 0, payment_methods |-> IF n > 0 THEN 2 ELSE 0,
     order_statuses_Closed |-> closed, gift_orders_percentage |-> gift, date_range |-> dr]

AudiblePurchases(n, amount, u, types, dr) ==
    [num_purchases |-> n, total_amount_spent |-> amount, unique_audiobooks |-> u,
     purchase_types |-> types, date_range |-> dr]

AudibleLibrary(n, u, yes, dr) ==
    [num_items_in_library |-> n, unique_audiobooks |-> u, downloaded_Yes |-> yes,
     date_range |-> dr]

AudibleBillings(n, amount, dr) ==
    [num_billings |-> n, total_amount_spent |-> amount, date_range |-> dr]

PrimeVideo(n, hours, u, devices, dr) ==
    [num_viewing_sessions |-> n, total_hours_viewed |-> hours,
     unique_titles_watched |-> u, devices_used |-> devices, date_range |-> dr]

\* the CategoryMetadata that analyze_data computes from the files of the
\* model: per category a rich recent file, a thin file, a file without
\* rows, and a file whose rows carry no date
Metadatas(file_name) ==
    CASE file_name = "Retail.CartItems.1.csv" ->
            { CartItems(4, 3, 2, DateRange(-40, -10)),
              CartItems(1, 1, 1, DateRange(-10, -10)),
              CartItems(0, 0, 0, NoDateRange),
              CartItems(4, 3, 2, NoDateRange) }
      [] file_name = "Digital Items.csv" ->
            { DigitalItems(3, 2, 4500, DateRange(-20, -3)),
              DigitalItems(1, 1, 100, DateRange(-3, -3)),
              DigitalItems(0, 0, 0, NoDateRange),
              DigitalItems(3, 2, 4500, NoDateRange) }
      [] file_name \in {"Retail.OrderHistory.1.csv", "Retail.OrderHistory.2.csv"} ->
            { OrderHistory(800, 100000, 50, 700, 250, DateRange(-1835, -5)),
              OrderHistory(10, 30000, 8, 9, 0, DateRange(-100, -5)),
              OrderHistory(0, 0, 0, 0, 0, NoDateRange),
              OrderHistory(800, 100000, 50, 700, 250, NoDateRange) }
      [] file_name = "Audible.PurchaseHistory.csv" ->
            { AudiblePurchases(5, 6000, 4, 2, DateRange(-200, -20)),
              AudiblePurchases(1, 100, 1, 1, DateRange(-20, -20)),
              AudiblePurchases(0, 0, 0, 0, NoDateRange),
              AudiblePurchases(5, 6000, 4, 2, NoDateRange) }
      [] file_name = "Audible.Library.csv" ->
            { AudibleLibrary(6, 5, 3, DateRange(-300, -30)),
              AudibleLibrary(1, 1, 0, DateRange(-30, -30)),
              AudibleLibrary(0, 0, 0, NoDateRange),
              AudibleLibrary(6, 5, 3, NoDateRange) }
      [] file_name = "Audible.MembershipBillings.csv" ->
            { AudibleBillings(12, 18000, DateRange(-400, -15)),
              AudibleBillings(1, 100, DateRange(-15, -15)),
              AudibleBillings(0, 0, NoDateRange),
              AudibleBillings(12, 18000, NoDateRange) }
      [] file_name = "PrimeVideo.ViewingHistory.csv" ->
            { PrimeVideo(20, 3000, 8, 2, DateRange(-90, -2)),
              PrimeVideo(1, 10, 1, 1, DateRange(-2, -2)),
              PrimeVideo(0, 0, 0, 0, NoDateRange),
              PrimeVideo(20, 3000, 8, 2, NoDateRange) }

\* the decimal digits
Digits == << "0", "1", "2", "3", "4", "5", "6", "7", "8", "9" >>

IsDigit(c) == \E d \in 1..10 : Digits[d] = c

DigitValue(c) == (CHOOSE d \in 1..10 : Digits[d] = c) - 1

\* str.isdigit(): not empty and made of digits only
isdigit(text) == Len(text) > 0 /\ \A i \in 1..Len(text) : IsDigit(text[i])

RECURSIVE DecimalValue(_)
\* the number a string of digits denotes
DecimalValue(text) ==
    IF Len(text) = 0 THEN 0
    ELSE 10 * DecimalValue(SubSeq(text, 1, Len(text) - 1)) + DigitValue(text[Len(text)])

ErrIntLiteral == "ValueError: invalid literal for int() with base 10"

ErrFloatLiteral == "ValueError: could not convert string to float"

\* int(text) for a text without sign, blank or underscore: the integer of a
\* string of digits, ValueError for every other text
PyInt(text) == IF isdigit(text) THEN Ok(DecimalValue(text)) ELSE Raise(ErrIntLiteral)

\* float(text) for a text without sign, blank or exponent, in hundredths:
\* digits with at most one point and at least one digit, else ValueError
PyFloat(text) ==
    LET points == {i \in 1..Len(text) : text[i] = "."}
        at == CHOOSE i \in points : TRUE
        whole == SubSeq(text, 1, at - 1)
        fraction == SubSeq(text, at + 1, Len(text))
        hundredths == IF Len(fraction) = 0 THEN 0
                      ELSE IF Len(fraction) = 1 THEN 10 * DigitValue(fraction[1])
                      ELSE 10 * DigitValue(fraction[1]) + DigitValue(fraction[2])
    IN  IF points = {}
        THEN IF isdigit(text) THEN Ok(100 * DecimalValue(text)) ELSE Raise(ErrFloatLiteral)
        ELSE IF /\ Cardinality(points) = 1
                /\ Len(whole) = 0 \/ isdigit(whole)
                /\ Len(fraction) = 0 \/ isdigit(fraction)
                /\ Len(whole) + Len(fraction) > 0
             THEN Ok(100 * DecimalValue(whole) + hundredths)
             ELSE Raise(ErrFloatLiteral)

RECURSIVE StripQuotes(_)
\* value.strip("'\""): quote characters removed from both ends
StripQuotes(text) ==
    IF Len(text) > 0 /\ text[1] \in {"'", "\""} THEN StripQuotes(Tail(text))
    ELSE IF Len(text) > 0 /\ text[Len(text)] \in {"'", "\""}
         THEN StripQuotes(SubSeq(text, 1, Len(text) - 1))
         ELSE text

\* parse_float(value): float() of the text without its quotes, 0.0 when
\* float() raises ValueError
parse_float(value) ==
    LET converted == PyFloat(StripQuotes(value))
    IN  IF converted.raised THEN Ok(0) ELSE converted

\* most rows of a file handed to analyze_data directly
MaxRows == 2

\* the texts of an amount field (Total Owed, ListPriceAmount, Price Paid
\* Member, Total Amount, Seconds Viewed): empty, 3, 2.5, abc, '4'
AmountTexts ==
    { << >>, << "3" >>, << "2", ".", "5" >>, << "a", "b", "c" >>, << "'", "4", "'" >> }

\* the texts of a Quantity field: empty, 3, 2.5, abc
QuantityTexts == { << >>, << "3" >>, << "2", ".", "5" >>, << "a", "b", "c" >> }

\* a row of csv.DictReader, reduced to its numeric fields
Rows == [amount : AmountTexts, quantity : QuantityTexts]

RECURSIVE SumParsed(_, _, _)
\* sum(convert(row[field]) for row in data if keep(row[field])): the sum, or
\* the first exception of a conversion; selected lists the rows kept
SumParsed(data, selected, converted) ==
    IF Len(data) = 0 THEN Ok(0)
    ELSE LET rest == SumParsed(Tail(data), Tail(selected), Tail(converted))
         IN  IF ~Head(selected) THEN rest
             ELSE IF Head(converted).raised THEN Head(converted)
             ELSE IF rest.raised THEN rest
             ELSE Ok(Head(converted).value + rest.value)

\* the file types whose analyzer sums an amount over the rows with a
\* non-empty amount field
AmountFiles == {"Retail.OrderHistory.1.csv", "Retail.OrderHistory.2.csv",
                "Audible.PurchaseHistory.csv", "Audible.MembershipBillings.csv",
                "PrimeVideo.ViewingHistory.csv"}

\* analyze_data(file_name, data), reduced to the aggregates it computes from
\* the numeric fields: the number of rows, the amount total in hundredths
\* and the quantity total
analyze_data(file_name, data) ==
    LET rows == 1..Len(data)
        amounts == [i \in rows |-> parse_float(data[i].amount)]
        total_amount ==
            IF file_name = "Digital Items.csv"
            THEN SumParsed(data, [i \in rows |-> TRUE], amounts)
            ELSE IF file_name \in AmountFiles
            THEN SumParsed(data, [i \in rows |-> Len(data[i].amount) > 0], amounts)
            ELSE Ok(0)
        total_quantity ==
            IF file_name = "Retail.CartItems.1.csv"
            THEN SumParsed(data, [i \in rows |-> isdigit(data[i].quantity)],
                           [i \in rows |-> PyInt(data[i].quantity)])
            ELSE IF file_name \in {"Retail.OrderHistory.1.csv", "Retail.OrderHistory.2.csv"}
            THEN SumParsed(data, [i \in rows |-> Len(data[i].quantity) > 0],
                           [i \in rows |-> PyInt(data[i].quantity)])
            ELSE Ok(0)
    IN  IF file_name \notin FileNames THEN Raise("ValueError: Unknown file type")
        ELSE IF total_amount.raised THEN total_amount
        ELSE IF total_quantity.raised THEN total_quantity
        ELSE Ok([num_rows |-> Len(data),
                 total_amount |-> total_amount.value,
                 total_quantity |-> total_quantity.value])

ErrDate == "ValueError: Date is not in a recognized format."

\* analyze_data(csv_file.name, file_data): the metadata, the ValueError of
\* parse_date for a file with a date in no accepted format, or the exception
\* that a numeric field of a row raises
AnalyzeResults(file_name) ==
    {Ok(m) : m \in Metadatas(file_name)} \cup {Raise(ErrDate)}
       \cup {analyze_data(file_name, << row >>) : row \in {r \in Rows :
                analyze_data(file_name, << r >>).raised}}

\* len(file_data): the number of rows of the file a metadata comes from
RowCount(file_name, metadata) ==
    CASE file_name \in {"Retail.CartItems.1.csv", "Digital Items.csv"} -> metadata.num_items
      [] file_name \in {"Retail.OrderHistory.1.csv", "Retail.OrderHistory.2.csv"} ->
            metadata.num_orders
      [] file_name = "Audible.PurchaseHistory.csv" -> metadata.num_purchases
      [] file_name = "Audible.Library.csv" -> metadata.num_items_in_library
      [] file_name = "Audible.MembershipBillings.csv" -> metadata.num_billings
      [] file_name = "PrimeVideo.ViewingHistory.csv" -> metadata.num_viewing_sessions

\* the integers an evaluator reply {"score": n} carries in the model
ReplyScores == {80, 200}

\* the evaluator replies: {"score": n}, text that is no JSON, an object
\* without "score", {"score": "high"}, a JSON array or number, {"score": null}
Replies ==
    {[kind |-> "score", n |-> n] : n \in ReplyScores}
    \cup {[kind |-> k, n |-> 0] :
            k \in {"not_json", "no_score_key", "score_not_a_number",
                   "not_an_object", "null_score"}}

(***************************************************************************)
(* proof_of_quality(config)                                                *)
(***************************************************************************)

\* the values of config['network']: the two profiles of validation_config
\* and a name it has no profile for
ConfiguredNetworks == Networks \cup {"devnet"}

\* validation_config[config['network']] for a name without a profile
ErrNetwork == "KeyError: network"

Init ==
    /\ pc = "proof_of_authenticity"
    /\ config \in [network : ConfiguredNetworks, has_key : BOOLEAN]
    /\ csv_files \in {F \in SUBSET RunPaths : Cardinality(F) <= MaxFiles}
    /\ RunIdle
    /\ CalcIdle
    /\ pack_args = << << >>, << >> >>
    /\ metadata_scores = << >>
    /\ validation_scores = << >>
    /\ packed_str = NoResult
    /\ unpacked = << << >>, << >> >>
    /\ test_scores = EmptyDict
    /\ post_processed_scores = NoResult
    /\ decoded_scores = EmptyDict

\* proof_of_authenticity and proof_of_uniqueness return 0 or 1
Binary == {0, 1}

ErrNoApiKey == "RuntimeError: PRIMEINSIGHTS_TEE_API_KEY environment variable not set"

ErrProofKey == "ValueError: Amazon link hash does not match proof key"

ErrTee == "ValueError: Failed to fetch proof from TEE"

ErrNoZip == "FileNotFoundError: No input zip file found."

\* proof_of_authenticity(config): 1 when the hash of the zip file is the one
\* the remote service holds, 0 when it is not, or one of its exceptions
AuthenticityResults ==
    {Ok(b) : b \in Binary}
       \cup {Raise(e) : e \in {ErrNoApiKey, ErrProofKey, ErrTee, ErrNoZip}}

\* "authenticity = proof_of_authenticity(self.config)"
ProofOfAuthenticity ==
    /\ pc = "proof_of_authenticity"
    /\ \E result \in AuthenticityResults :
          /\ authenticity' = result
          /\ pc' = IF result.raised THEN "raised" ELSE "proof_of_uniqueness"
    /\ UNCHANGED << config, uniqueness, saved_minhashes, csv_files, scores,
                    file_scores, csv_file, file_data, metadata_score, sample_size,
                    sample_scores, score_json, category_scores, run_result,
                    proof_response, codecVars, pack_args, calcVars >>

\* what client.query_similar_minhashes does: the request fails, no candidate
\* comes back, a candidate at or above config['uniqueness_threshold'] comes
\* back, or only candidates below it
QueryResults == {"fails", "none", "similar", "distant"}

\* what client.save_minhash does once called: the fingerprint is saved and
\* the entry id comes back, or the request fails and raise_for_status raises
SaveResults == {"saved", "fails"}

\* requests.HTTPError of response.raise_for_status()
ErrHTTP == "HTTPError"

\* mutant of proof_of_uniqueness: the fingerprint is saved before the
\* similarity is looked at
proof_of_uniqueness_save_first(minhash, query, save) ==
    IF ~minhash THEN [result |-> Ok(0), saves |-> 0]
    ELSE IF query = "fails" THEN [result |-> Raise(ErrHTTP), saves |-> 0]
    ELSE IF save = "fails" THEN [result |-> Raise(ErrHTTP), saves |-> 0]
    ELSE [result |-> Ok(IF query = "similar" THEN 0 ELSE 1), saves |-> 1]

\* proof_of_uniqueness(config): its result and the number of fingerprints
\* client.save_minhash saved for it; minhash is whether
\* process_order_history returned a fingerprint
proof_of_uniqueness(minhash, query, save) ==
    IF ~minhash THEN [result |-> Ok(0), saves |-> 0]
    ELSE IF query = "fails" THEN [result |-> Raise(ErrHTTP), saves |-> 0]
    ELSE IF query = "similar" THEN [result |-> Ok(0), saves |-> 0]
    ELSE IF save = "fails" THEN [result |-> Raise(ErrHTTP), saves |-> 0]
    ELSE [result |-> Ok(1), saves |-> 1]

\* "uniqueness = proof_of_uniqueness(self.config)"; a folder that holds a
\* category file holds a .csv file, so process_order_history returns a
\* fingerprint for it
ProofOfUniqueness ==
    /\ pc = "proof_of_uniqueness"
    /\ \E minhash \in BOOLEAN, query \in QueryResults, save \in SaveResults :
          /\ csv_files # {} => minhash
          /\ LET outcome == proof_of_uniqueness(minhash, query, save)
             IN  /\ uniqueness' = outcome.result
                 /\ saved_minhashes' = saved_minhashes + outcome.saves
                 /\ pc' = IF outcome.result.raised THEN "raised" ELSE "proof_of_quality"
    /\ UNCHANGED << config, authenticity, csv_files, scores, file_scores, csv_file,
                    file_data, metadata_score, sample_size, sample_scores, score_json,
                    category_scores, run_result, proof_response, codecVars,
                    pack_args, calcVars >>

\* scores[csv_file.name] = process_single_file(csv_file, config), at its
\* return: its locals and those of validate_sample are gone
StoreScores(file, ms, vs) ==
    /\ scores' = [f \in DOMAIN scores \cup {file.name} |->
                     IF f = file.name
                     THEN [metadata_score |-> ms, validation_openai_score |-> vs]
                     ELSE scores[f]]
    /\ file_scores' = [f \in DOMAIN file_scores \cup {file} |->
                          IF f = file
                          THEN [metadata_score |-> ms, validation_openai_score |-> vs]
                          ELSE file_scores[f]]
    /\ pc' = "proof_of_quality"
    /\ csv_file' = NoFile
    /\ file_data' = 0
    /\ metadata_score' = NoScore
    /\ sample_size' = 0
    /\ sample_scores' = << >>
    /\ UNCHANGED run_result

\* the failure is swallowed: an all-zero record is returned
RaiseFromRunZeroed(error) ==
    /\ pc' = "done"
    /\ run_result' = post_process_scores(EmptyDict)
    /\ UNCHANGED << scores, file_scores, csv_file, file_data, metadata_score,
                    sample_size, sample_scores >>

\* an exception leaves proof_of_quality: nothing is returned
RaiseFromRun(error) ==
    /\ pc' = "raised"
    /\ run_result' = Raise(error)
    /\ UNCHANGED << scores, file_scores, csv_file, file_data, metadata_score,
                    sample_size, sample_scores >>

ValidationEnabledByKey(cfg, score) == cfg.has_key

\* "OPENAI_API_KEY" in config and metadata_score["is_valid"]
ValidationEnabled(cfg, score) == cfg.has_key /\ score.is_valid

\* mutant of SampleLength: one row is sampled
SampleLengthOne(sample_size_cfg, rows) == Min2(1, rows)

\* len(random.sample(data, min(sample_size, len(data)))): the sample holds
\* that many distinct rows of data
SampleLength(sample_size_cfg, rows) == Min2(sample_size_cfg, rows)

\* one turn of "for csv_file in csv_files": process_single_file up to its
\* return, its exception, or the first evaluator call of validate_sample
ProcessSingleFile ==
    /\ pc = "proof_of_quality"
    /\ \E file \in csv_files \ DOMAIN file_scores :
       \E analysis \in AnalyzeResults(file.name) :
          LET validation_cfg == get_validation_config(config)
              scored == calculate_score(file.name, analysis.value, validation_cfg)
              rows == RowCount(file.name, analysis.value)
              sample_len == Min2(SampleLength(validation_cfg.SAMPLE_SIZE, rows),
                                 MaxSampleRows)
          IN  IF analysis.raised THEN RaiseFromRun(analysis.error)
              ELSE IF config.network \notin Networks THEN RaiseFromRun(ErrNetwork)
              ELSE IF scored.raised THEN RaiseFromRun(scored.error)
              ELSE IF ~ValidationEnabled(config, scored.value)
                   THEN StoreScores(file, scored.value, NoValidation)
              ELSE IF sample_len = 0
                   THEN RaiseFromRun(AverageResult(<< >>, validation_cfg).error)
              ELSE /\ pc' = "validate_sample"
                   /\ csv_file' = file
                   /\ file_data' = rows
                   /\ metadata_score' = scored.value
                   /\ sample_size' = sample_len
                   /\ sample_scores' = << >>
                   /\ UNCHANGED << scores, file_scores, run_result >>
    /\ score_json' = NoReply
    /\ UNCHANGED << config, authenticity, uniqueness, saved_minhashes, csv_files,
                    category_scores, proof_response, codecVars, pack_args, calcVars >>

\* one turn of "for order in sample" of validate_sample: the evaluator call,
\* its reply, and, after the last row, the average and the return
EvaluateRow ==
    /\ pc = "validate_sample"
    /\ \E reply \in Replies :
          LET parsed == ParseReply(reply)
              validation_cfg == get_validation_config(config)
              appended == Append(sample_scores, parsed.value)
          IN  /\ score_json' = reply
              /\ IF parsed.raised
                 THEN IF parsed.error \in CaughtByValidateSample
                      THEN StoreScores(csv_file, metadata_score, NoValidation)
                      ELSE RaiseFromRun(parsed.error)
                 ELSE IF Len(appended) < sample_size
                      THEN /\ sample_scores' = appended
                           /\ UNCHANGED << pc, scores, file_scores, csv_file, file_data,
                                           metadata_score, sample_size, run_result >>
                      ELSE StoreScores(csv_file, metadata_score,
                                       AverageResult(appended, validation_cfg).value)

    /\ UNCHANGED << config, authenticity, uniqueness, saved_minhashes, csv_files,
                    category_scores, proof_response, codecVars, pack_args, calcVars >>

\* openai.APITimeoutError is a subclass of openai.APIConnectionError
ErrTransport == "APIConnectionError"

\* client.chat.completions.create raises (timeout, transport failure):
\* nothing in validate_sample or proof_of_quality catches it
EvaluatorFails ==
    /\ pc = "validate_sample"
    /\ RaiseFromRun(ErrTransport)
    /\ UNCHANGED << config, authenticity, uniqueness, saved_minhashes, csv_files,
                    category_scores, score_json, proof_response, codecVars,
                    pack_args, calcVars >>

\* after the loop: calculate_weighted_scores and post_process_scores
ReturnScores ==
    /\ pc = "proof_of_quality"
    /\ csv_files \subseteq DOMAIN file_scores
    /\ category_scores' = calculate_weighted_scores(scores)
    /\ pack_args' = << quantize_scores(OrderedScores(category_scores', 1)),
                       quantize_scores(OrderedScores(category_scores', 2)) >>
    /\ run_result' = post_process_scores(category_scores')
    /\ pc' = IF run_result'.raised THEN "raised" ELSE "done"
    /\ UNCHANGED << config, authenticity, uniqueness, saved_minhashes, csv_files,
                    scores, file_scores, csv_file, file_data, metadata_score,
                    sample_size, sample_scores, score_json, proof_response,
                    codecVars, calcVars >>

\* a number as a value of the attributes dictionary
JsonNumber(n) == [json |-> "number", value |-> n]

\* a dictionary as a value of the attributes dictionary
JsonObject(map) == [json |-> "object", value |-> map]

\* mutant of ProofResponse: a record without any non-zero score is not valid
ProofResponseQualityGated(authenticity_value, uniqueness_value, category_scores_packed_str) ==
    [authenticity |-> authenticity_value,
     ownership |-> authenticity_value,
     uniqueness |-> uniqueness_value,
     quality |-> 0,
     score |-> 0,
     valid |-> (uniqueness_value = 1 /\ authenticity_value = 1
                /\ \E i \in 1..Len(category_scores_packed_str) :
                      category_scores_packed_str[i] # "0"),
     metadata |-> category_scores_packed_str,
     attributes |-> [category_scores |-> JsonNumber(0)]]

\* the ProofResponse that Proof.generate fills in once proof_of_quality has
\* returned
ProofResponse(authenticity_value, uniqueness_value, category_scores_packed_str) ==
    [authenticity |-> authenticity_value,
     ownership |-> authenticity_value,
     uniqueness |-> uniqueness_value,
     quality |-> 0,
     score |-> 0,
     valid |-> (uniqueness_value = 1 /\ authenticity_value = 1),
     metadata |-> category_scores_packed_str,
     attributes |-> [category_scores |-> JsonNumber(0)]]

\* the rest of Proof.generate after proof_of_quality returned
Generate ==
    /\ pc = "done"
    /\ proof_response' = ProofResponse(authenticity.value, uniqueness.value,
                                       run_result.value)
    /\ pc' = "generated"
    /\ UNCHANGED << config, authenticity, uniqueness, saved_minhashes, csv_files,
                    scores, file_scores, csv_file, file_data, metadata_score,
                    sample_size, sample_scores, score_json, category_scores,
                    run_result, codecVars, pack_args, calcVars >>

Next ==
    \/ ProofOfAuthenticity
    \/ ProofOfUniqueness
    \/ ProcessSingleFile
    \/ EvaluateRow
    \/ EvaluatorFails
    \/ ReturnScores
    \/ Generate

Spec == Init /\ [][Next]_vars

(***************************************************************************)
(* Direct calls of calculate_log_score, calculate_time_weight and          *)
(* calculate_score                                                         *)
(***************************************************************************)

\* value arguments of calculate_log_score: negative, 0, counts, day spans,
\* amounts in hundredths
LogValues == {-5, 0, 1, 2, 3, 4, 5, 7, 10, 20, 30, 50, 100, 365, 1000, 4500, 100000}

\* min_value arguments: negative, 0, and minima of the profiles and defaults
LogMins == {-1, 0, 1, 2, 3, 5, 7, 30, 100, 500, 2000}

\* latest dates as ages in days: future, today, within and past 4 * 365
Ages == {-400, -5, -1, 0, 1, 30, 364, 365, 366, 730, 1000, 1459, 1460, 1461, 2000, 5000}

\* date ranges of the metadata: none, one day, short, ending today, just
\* below and at 5 * 365 days, old, and ending in the future
DateRanges ==
    { NoDateRange, DateRange(-10, -10), DateRange(-40, -10), DateRange(-400, 0),
      DateRange(-1829, -5), DateRange(-1830, -5), DateRange(-3000, -1500),
      DateRange(-5, 5) }

\* the metadata analyze_data can compute, over small counts and amounts
ScoreMetadatas(file_name) ==
    CASE file_name = "Retail.CartItems.1.csv" ->
            { CartItems(n, u, IF all THEN n ELSE 0, dr) :
                n \in {0, 1, 4}, u \in {0, 1, 3}, all \in BOOLEAN, dr \in DateRanges }
      [] file_name = "Digital Items.csv" ->
            { DigitalItems(n, u, amount, dr) : n \in {0, 1, 3}, u \in {0, 1, 2},
                                               amount \in {-500, 0, 100, 4500},
                                               dr \in DateRanges }
      [] file_name \in {"Retail.OrderHistory.1.csv", "Retail.OrderHistory.2.csv"} ->
            { OrderHistory(n, amount, u, IF all THEN n ELSE 0, gift, dr) :
                n \in {0, 1, 782, 800}, amount \in {0, 400, 100000}, u \in {0, 1, 50},
                all \in BOOLEAN, gift \in {0, 10000}, dr \in DateRanges }
      [] file_name = "Audible.PurchaseHistory.csv" ->
            { AudiblePurchases(n, amount, u, types, dr) :
                n \in {0, 1, 5}, amount \in {0, 100, 6000}, u \in {0, 1, 4},
                types \in {0, 2}, dr \in DateRanges }
      [] file_name = "Audible.Library.csv" ->
            { AudibleLibrary(n, u, IF all THEN n ELSE 0, dr) :
                n \in {0, 1, 6}, u \in {0, 1, 5}, all \in BOOLEAN, dr \in DateRanges }
      [] file_name = "Audible.MembershipBillings.csv" ->
            { AudibleBillings(n, amount, dr) : n \in {0, 1, 12},
                                               amount \in {0, 100, 18000},
                                               dr \in DateRanges }
      [] file_name = "PrimeVideo.ViewingHistory.csv" ->
            { PrimeVideo(n, hours, u, devices, dr) :
                n \in {0, 1, 20}, hours \in {0, 10, 3000}, u \in {0, 1, 8},
                devices \in {0, 2}, dr \in DateRanges }

LogScoreCalls ==
    [fn : {"calculate_log_score"}, value : LogValues, min_value : LogMins,
     network : Networks]

TimeWeightCalls ==
    {[fn |-> "calculate_time_weight", date_range |-> NoDateRange]}
    \cup {[fn |-> "calculate_time_weight", date_range |-> DateRange(-a, -a)] : a \in Ages}

ScoreCalls ==
    UNION {[fn : {"calculate_score"}, file_name : {f}, metadata : ScoreMetadatas(f),
            network : Networks] : f \in FileNames}

AnalyzeCalls ==
    [fn : {"analyze_data"}, file_name : FileNames,
     data : UNION {[1..n -> Rows] : n \in 0..MaxRows}]

InitScore ==
    /\ pc = "call"
    /\ call \in LogScoreCalls \cup TimeWeightCalls \cup ScoreCalls \cup AnalyzeCalls
    /\ returned = NoResult
    /\ config = [network |-> "satori", has_key |-> FALSE]
    /\ csv_files = {}
    /\ RunIdle
    /\ pack_args = << << >>, << >> >>
    /\ metadata_scores = << >>
    /\ validation_scores = << >>
    /\ packed_str = NoResult
    /\ unpacked = << << >>, << >> >>
    /\ test_scores = EmptyDict
    /\ post_processed_scores = NoResult
    /\ decoded_scores = EmptyDict

Return(value) ==
    /\ returned' = value
    /\ pc' = "returned"
    /\ UNCHANGED << call, codecVars, pack_args, runVars >>

CalculateLogScore ==
    /\ pc = "call"
    /\ call.fn = "calculate_log_score"
    /\ Return(Ok(calculate_log_score(call.value, call.min_value,
                                     validation_config[call.network])))

CalculateTimeWeight ==
    /\ pc = "call"
    /\ call.fn = "calculate_time_weight"
    /\ Return(Ok(calculate_time_weight(call.date_range)))

CalculateScore ==
    /\ pc = "call"
    /\ call.fn = "calculate_score"
    /\ Return(calculate_score(call.file_name, call.metadata,
                              validation_config[call.network]))

AnalyzeData ==
    /\ pc = "call"
    /\ call.fn = "analyze_data"
    /\ Return(analyze_data(call.file_name, call.data))

NextScore == CalculateLogScore \/ CalculateTimeWeight \/ CalculateScore \/ AnalyzeData

SpecScore == InitScore /\ [][NextScore]_vars

(***************************************************************************)
(* Properties of the codec                                                 *)
(***************************************************************************)

InByteRange(list) == \A i \in 1..Len(list) : list[i] \in 0..255

\* the pair decoded for a category, a missing category counting as (0.0, 0.0)
DecodedGet(name) ==
    IF name \in DOMAIN decoded_scores THEN decoded_scores[name] ELSE << 0, 0 >>

InUnitRange(pair) == \A k \in 1..2 : 0 <= pair[k] /\ pair[k] <= ONE

\* floor(x * 255) / 255 as a float, for x >= 0
FloorGrid(x) == Over255((x * 255) \div ONE)

\* the position of a category in INTERESTING_FILES, counted from 0
Ordinal(name) == (CHOOSE i \in 1..N : INTERESTING_FILES[i] = name) - 1

\* C1: for equal-length lists m, v of integers in 0..255, pack_scores returns
\* and unpack_scores(pack_scores(m, v)) is exactly (m, v).
C1_PackUnpackRoundTrip ==
    (/\ pc \in {"packed", "unpacked", "pack_raised"}
     /\ Len(metadata_scores) = Len(validation_scores)
     /\ InByteRange(metadata_scores)
     /\ InByteRange(validation_scores))
    => /\ pc # "pack_raised"
       /\ pc = "unpacked" => unpacked = << metadata_scores, validation_scores >>

C1_Witness ==
    /\ pc = "unpacked"
    /\ Len(metadata_scores) = 2
    /\ metadata_scores # validation_scores
    /\ unpacked = << metadata_scores, validation_scores >>

C3_DecodeWithinTolerance ==
    pc = "decoded" =>
        \A name \in DOMAIN test_scores :
            InUnitRange(test_scores[name]) =>
                \A k \in 1..2 :
                    LET d == DecodedGet(name)[k] - test_scores[name][k]
                    IN  -Milli(1) < d /\ d < Milli(1)

\* C4: post_process_decode returns exactly the categories whose decoded
\* pair is not (0.0, 0.0): an absent category never appears, and a present
\* category whose two scores both quantize to byte 0 is omitted.
C4_ZeroPairsOmitted ==
    pc = "decoded" =>
        /\ DOMAIN decoded_scores =
              {name \in DOMAIN test_scores :
                  \E k \in 1..2 : TruncDiv(test_scores[name][k] * 255, ONE) # 0}
        /\ \A name \in DOMAIN decoded_scores : decoded_scores[name] # << 0, 0 >>

C4_Witness ==
    /\ pc = "decoded"
    /\ \E name \in DOMAIN test_scores :
         /\ test_scores[name] = << Milli(1), Milli(1) >>
         /\ name \notin DOMAIN decoded_scores
    /\ \E name \in FileNames : name \notin DOMAIN test_scores

AllZeros(n) == [i \in 1..n |-> "0"]

Clamp(lo, hi, x) == Max2(lo, Min2(hi, x))

Floor255(x) == (x * 255) \div ONE

EncodedByte(name, k) ==
    ParseHex(PySlice(post_processed_scores.value,
                     16 * (k - 1) + 2 * Ordinal(name),
                     16 * (k - 1) + 2 * Ordinal(name) + 2))

\* C8 as stated: for every float score, also above 1 and below 0, the
\* encode does not fail and the byte emitted is clamp(0, 255, floor(score*255)).
C8_QuantizationClamps ==
    pc \in {"encoded", "decoded", "encode_raised"} =>
        /\ ~post_processed_scores.raised
        /\ \A name \in DOMAIN test_scores : \A k \in 1..2 :
               EncodedByte(name, k) = Clamp(0, 255, Floor255(test_scores[name][k]))

\* C8 amended: quantization does not clamp.  The encode returns exactly
\* when int(score*255), truncated toward zero, lies in 0..255 for every
\* score; the byte emitted is then that integer, which is floor(score*255)
\* for a score in [0,1] and 0 for a score in (-1/255, 0).  Otherwise
\* pack_scores raises the range ValueError (the metadata message when a
\* metadata score is out of range, else the validation message) and no
\* record is produced.
C8_QuantizationTruncatesOrRaises ==
    pc \in {"encoded", "decoded", "encode_raised"} =>
        LET q(name, k) == TruncDiv(test_scores[name][k] * 255, ONE)
            bad(k) == \E name \in DOMAIN test_scores : q(name, k) \notin 0..255
        IN  /\ post_processed_scores.raised <=> (bad(1) \/ bad(2))
            /\ bad(1) => post_processed_scores = Raise(ErrMetadataRange)
            /\ (~bad(1) /\ bad(2)) => post_processed_scores = Raise(ErrValidationRange)
            /\ ~post_processed_scores.raised =>
                  \A name \in DOMAIN test_scores : \A k \in 1..2 :
                      LET x == test_scores[name][k]
                      IN  /\ EncodedByte(name, k) = q(name, k)
                          /\ (0 <= x /\ x <= ONE) => EncodedByte(name, k) = Floor255(x)
                          /\ (-Over255(1) < x /\ x < 0) => EncodedByte(name, k) = 0

C8_Witness ==
    /\ pc = "encode_raised"
    /\ post_processed_scores = Raise(ErrValidationRange)
    /\ \E name \in DOMAIN test_scores : test_scores[name] = << -Milli(1), Milli(1500) >>

\* C9: pack_scores raises the length-mismatch ValueError whenever its two
\* lists differ in length, and returns no partial string; post_process_scores
\* always passes two lists of length 8, so it never gets that error.
C9_LengthMismatch ==
    /\ (pc \in {"packed", "unpacked", "pack_raised"}
        /\ Len(pack_args[1]) # Len(pack_args[2]))
       => /\ pc = "pack_raised"
          /\ packed_str = Raise(ErrLength)
          /\ packed_str.value = << >>
    /\ pc \in {"encoded", "decoded", "encode_raised"}
       => /\ Len(pack_args[1]) = 8
          /\ Len(pack_args[2]) = 8
          /\ post_processed_scores.error # ErrLength

C9_Witness ==
    /\ pc = "pack_raised"
    /\ Len(metadata_scores) = 2
    /\ Len(validation_scores) = 1
    /\ InByteRange(metadata_scores)
    /\ packed_str.error = ErrLength

\* C10: in a run of proof_of_quality, for every set of input files and every
\* sequence of evaluator replies, every metadata score and every validation
\* score handed to post_process_scores quantizes to a byte in 0..255, so the
\* run never ends with the out-of-range ValueError of pack_scores.
C10_RangeErrorUnreachable ==
    pc \in {"done", "raised"}
       => /\ InByteRange(pack_args[1])
          /\ InByteRange(pack_args[2])
          /\ run_result.error \notin {ErrMetadataRange, ErrValidationRange}

\* the metadata half of C10 alone: calculate_score keeps its score in [0, 1]
MetadataScoresInRange ==
    /\ \A name \in DOMAIN scores :
          LET score == scores[name].metadata_score.score IN 0 <= score /\ score <= ONE
    /\ InByteRange(pack_args[1])
    /\ run_result.error # ErrMetadataRange

\* a run that the reply {"score": 200} ends with the range error
ValidationScoreOutOfRange ==
    /\ pc = "raised"
    /\ run_result = Raise(ErrValidationRange)
    /\ \E name \in DOMAIN scores : scores[name].validation_openai_score.score = 2 * ONE

(***************************************************************************)
(* Properties of the scoring functions                                     *)
(***************************************************************************)

RetailFiles == {"Retail.OrderHistory.1.csv", "Retail.OrderHistory.2.csv"}

ScoreReturned == pc = "returned" /\ call.fn = "calculate_score"

\* the observed span of a metadata in days, 0 without a date range
SpanDays(metadata) ==
    IF metadata.date_range.earliest = NoDate \/ metadata.date_range.latest = NoDate
    THEN 0
    ELSE metadata.date_range.latest[1] - metadata.date_range.earliest[1]

\* purchases per week below per_week: orders over span / 7 weeks, over one
\* week for a span of 0 days, and 0 purchases without a date range
CadenceBelow(metadata, per_week) ==
    IF metadata.date_range.earliest = NoDate \/ metadata.date_range.latest = NoDate
    THEN 0 < per_week
    ELSE IF SpanDays(metadata) > 0
         THEN 7 * metadata.num_orders < per_week * SpanDays(metadata)
         ELSE metadata.num_orders < per_week

\* C11: for both retail order-history files and under both profiles (the
\* floors in force are 5 * 365 days and 3 purchases per week, configured on
\* mainnet and the defaults on satori), a span below the floor or a cadence
\* below the floor makes calculate_retail_order_history_score return
\* score = 0.0 and is_valid = false whatever the other metrics are.
C11_FloorGating ==
    (ScoreReturned /\ call.file_name \in RetailFiles
     /\ (SpanDays(call.metadata) < 5 * 365 \/ CadenceBelow(call.metadata, 3)))
       => /\ ~returned.raised
          /\ returned.value.score = 0
          /\ returned.value.is_valid = FALSE

C11_Witness ==
    /\ ScoreReturned
    /\ call.network = "satori"
    /\ call.metadata = OrderHistory(800, 100000, 50, 800, 0, DateRange(-1829, -5))
    /\ returned.value.score = 0
    /\ ~returned.value.is_valid

\* the minima a category checks, read from the profile: row count, unique
\* count, total amount, date span, and for retail the two floors
MinimaMet(file_name, m, cfg) ==
    CASE file_name = "Retail.CartItems.1.csv" ->
            /\ m.num_items >= cfg.MIN_ITEMS
            /\ m.unique_products >= cfg.MIN_UNIQUE_PRODUCTS
            /\ SpanDays(m) >= cfg.MIN_DATE_RANGE_DAYS
      [] file_name = "Digital Items.csv" ->
            /\ m.num_items >= cfg.MIN_DIGITAL_ITEMS
            /\ m.unique_products >= cfg.MIN_UNIQUE_PRODUCTS
            /\ m.total_amount >= cfg.MIN_TOTAL_AMOUNT
      [] file_name \in RetailFiles ->
            /\ m.num_orders >= cfg.MIN_ORDERS
            /\ m.total_amount >= cfg.MIN_TOTAL_AMOUNT
            /\ m.unique_products >= cfg.MIN_UNIQUE_PRODUCTS
            /\ SpanDays(m) >= cfg.MIN_DATE_RANGE_DAYS
            /\ SpanDays(m) >= 5 * 365
            /\ ~CadenceBelow(m, 3)
      [] file_name = "Audible.PurchaseHistory.csv" ->
            /\ m.num_purchases >= cfg.MIN_PURCHASES
            /\ m.total_amount_spent >= cfg.MIN_TOTAL_AMOUNT
            /\ m.unique_audiobooks >= cfg.MIN_UNIQUE_AUDIOBOOKS
            /\ SpanDays(m) >= cfg.MIN_DATE_RANGE_DAYS
      [] file_name = "Audible.Library.csv" ->
            /\ m.num_items_in_library >= cfg.MIN_LIBRARY_ITEMS
            /\ m.unique_audiobooks >= cfg.MIN_UNIQUE_AUDIOBOOKS
            /\ SpanDays(m) >= cfg.MIN_DATE_RANGE_DAYS
      [] file_name = "Audible.MembershipBillings.csv" ->
            /\ m.num_billings >= cfg.MIN_BILLINGS
            /\ m.total_amount_spent >= cfg.MIN_TOTAL_AMOUNT
            /\ SpanDays(m) >= cfg.MIN_DATE_RANGE_DAYS
      [] file_name = "PrimeVideo.ViewingHistory.csv" ->
            /\ m.num_viewing_sessions >= cfg.MIN_VIEWING_SESSIONS
            /\ m.total_hours_viewed >= cfg.MIN_TOTAL_HOURS
            /\ m.unique_titles_watched >= cfg.MIN_UNIQUE_TITLES
            /\ SpanDays(m) >= cfg.MIN_DATE_RANGE_DAYS

\* C12: whenever calculate_score returns a ComponentScore with is_valid =
\* true, its score is at least THRESHOLD_SCORE/100 and every minimum the
\* category checks is met; is_valid is never true below the threshold.
C12_ValidImpliesFloorsAndThreshold ==
    (ScoreReturned /\ ~returned.raised /\ returned.value.is_valid)
       => /\ returned.value.score * 100
                >= validation_config[call.network].THRESHOLD_SCORE * ONE
          /\ MinimaMet(call.file_name, call.metadata, validation_config[call.network])

C12_Witness ==
    /\ ScoreReturned
    /\ call.file_name = "Retail.OrderHistory.2.csv"
    /\ call.network = "mainnet"
    /\ returned.value.is_valid
    /\ returned.value.score > 0

\* a metadata that meets every minimum and is scored below the threshold
MinimaMetBelowThreshold ==
    /\ ScoreReturned
    /\ ~returned.raised
    /\ MinimaMet(call.file_name, call.metadata, validation_config[call.network])
    /\ ~returned.value.is_valid

TimeWeightReturned == pc = "returned" /\ call.fn = "calculate_time_weight"

\* C13: calculate_time_weight returns (0.0, 0) without a latest timestamp,
\* (0.0, age) for a negative age, weight 1.0 at age 0, weight 0.0 at age
\* 4 * 365 and at every larger age, and for every age a weight in [0, 1]
\* that is at most the weight of every smaller age.
C13_TimeWeight ==
    TimeWeightReturned =>
       LET latest == call.date_range.latest
           weight == returned.value[1]
           age == returned.value[2]
       IN  /\ 0 <= weight /\ weight <= 1000
           /\ latest = NoDate => returned.value = << 0, 0 >>
           /\ latest # NoDate =>
                 /\ age = -latest[1]
                 /\ age < 0 => weight = 0
                 /\ age = 0 => weight = 1000
                 /\ age >= 4 * 365 => weight = 0
                 /\ \A younger \in {a \in Ages : 0 <= a /\ a <= age} :
                       calculate_time_weight(DateRange(-younger, -younger))[1] >= weight

C13_Witness ==
    /\ TimeWeightReturned
    /\ call.date_range = DateRange(-1000, -1000)
    /\ 0 < returned.value[1]
    /\ returned.value[1] < calculate_time_weight(DateRange(-730, -730))[1]

LogScoreReturned == pc = "returned" /\ call.fn = "calculate_log_score"

Unparseable == {"not_json", "no_score_key"}

\* a file that validate_sample was called for and gave (false, 0.0)
Degraded(name) ==
    /\ name \in DOMAIN scores
    /\ config.has_key
    /\ scores[name].metadata_score.is_valid
    /\ scores[name].validation_openai_score = NoValidation

\* C15: when the evaluator reply for a sampled row is no JSON or lacks the
\* score field, validate_sample returns (is_valid = false, score = 0.0)
\* whatever the earlier rows scored, no exception leaves the run, the run is
\* back in the loop over the files, and no further row of that file is sent
\* to the evaluator.
C15_ValidatorFailFast ==
    /\ [][(pc = "validate_sample" /\ score_json'.kind \in Unparseable)
             => /\ pc' = "proof_of_quality"
                /\ csv_file.name \in DOMAIN scores'
                /\ scores'[csv_file.name].validation_openai_score
                      = [is_valid |-> FALSE, score |-> 0]
                /\ scores'[csv_file.name].metadata_score = metadata_score
                /\ sample_scores' = << >>
                /\ run_result' = run_result
                /\ ~run_result'.raised]_vars
    /\ [](pc = "validate_sample" => csv_file \notin DOMAIN file_scores)

\* the run is in validate_sample for another file after a degraded one
RunContinuesAfterDegraded ==
    /\ pc = "validate_sample"
    /\ \E name \in DOMAIN scores : Degraded(name)
    /\ ~run_result.raised

\* a reply that is no JSON degraded a file and the run is back in the loop
C15_Witness ==
    /\ pc = "proof_of_quality"
    /\ score_json.kind = "not_json"
    /\ sample_scores = << >>
    /\ \E name \in DOMAIN scores : Degraded(name)

\* C16: process_single_file calls the evaluator only with the metadata score
\* computed, OPENAI_API_KEY configured and the metadata ComponentScore valid;
\* in every other case the file is stored with the validation result
\* (is_valid = false, score = 0) straight from process_single_file, without
\* an evaluator reply.
C16_EvaluatorGated ==
    /\ [](pc = "validate_sample"
             => /\ config.has_key
                /\ metadata_score.is_valid
                /\ metadata_score # NoScore)
    /\ [](\A name \in DOMAIN scores :
             ~(config.has_key /\ scores[name].metadata_score.is_valid)
                => scores[name].validation_openai_score
                      = [is_valid |-> FALSE, score |-> 0])
    /\ [][\A name \in DOMAIN scores' \ DOMAIN scores :
             ~(config.has_key /\ scores'[name].metadata_score.is_valid)
                => /\ pc = "proof_of_quality"
                   /\ pc' = "proof_of_quality"
                   /\ score_json' = NoReply]_vars

C16_Witness ==
    /\ pc = "proof_of_quality"
    /\ config.has_key
    /\ score_json = NoReply
    /\ \E name \in DOMAIN scores :
          /\ ~scores[name].metadata_score.is_valid
          /\ scores[name].metadata_score.score > 0
          /\ scores[name].validation_openai_score = NoValidation

\* without a key a valid metadata score is stored without validation too
ValidButNoKey ==
    /\ ~config.has_key
    /\ \E name \in DOMAIN scores :
          /\ scores[name].metadata_score.is_valid
          /\ scores[name].validation_openai_score = NoValidation

\* C17: a timeout or transport failure of the evaluator call on a sampled
\* row gives the category the degraded result (is_valid = false, score =
\* 0.0): validate_sample returns it instead of raising, and the run does not
\* end with the transport error.
C17_TransportFailureDegrades ==
    pc = "raised" => run_result.error # ErrTransport

\* a run that a transport failure on the second sampled row ended
TransportFailureAbortsRun ==
    /\ pc = "raised"
    /\ run_result = Raise(ErrTransport)
    /\ Len(sample_scores) = 1
    /\ csv_file.name \notin DOMAIN scores

\* a reply that is not a JSON object {"score": <integer in 0..100>}
Deviates(reply) == reply.kind # "score" \/ reply.n \notin 0..100

\* C18: every evaluator reply that deviates from {"score": <integer in
\* 0..100>} is a validator-local failure: validate_sample returns
\* (is_valid = false, score = 0.0) for the file and nothing is raised.
C18_DeviationIsLocalFailure ==
    [][(pc = "validate_sample" /\ Deviates(score_json')
        /\ run_result'.error # ErrTransport)
          => /\ pc' = "proof_of_quality"
             /\ csv_file.name \in DOMAIN scores'
             /\ scores'[csv_file.name].validation_openai_score
                   = [is_valid |-> FALSE, score |-> 0]
             /\ ~run_result'.raised]_vars

\* the reply {"score": 200} is averaged as 2.0 and the file stored as valid
OutOfRangeReplyAccepted ==
    /\ pc = "proof_of_quality"
    /\ score_json = [kind |-> "score", n |-> 200]
    /\ \E name \in DOMAIN scores :
          /\ scores[name].validation_openai_score.is_valid
          /\ scores[name].validation_openai_score.score > ONE

\* the reply {"score": null} or a JSON array ends the run with a TypeError
MalformedReplyAbortsRun ==
    /\ pc = "raised"
    /\ score_json.kind \in {"not_an_object", "null_score"}
    /\ run_result = Raise("TypeError")

\* C19: when extraction or scoring of a file raises, proof_of_quality
\* raises: no further file is processed, no PackedRecord and no score map is
\* returned, Proof.generate returns no ProofResponse, and a ProofResponse is
\* only ever built from a run that scored every file.
C19_FailFastNoPartialOutput ==
    /\ [][/\ pc # "raised"
          /\ run_result'.raised
                => /\ pc' = "raised"
                   /\ run_result'.value = << >>
                   /\ scores' = scores
                   /\ proof_response' = NoResponse]_vars
    /\ [](pc = "raised" => proof_response = NoResponse)
    /\ [](proof_response # NoResponse
             => /\ ~run_result.raised
                /\ csv_files \subseteq DOMAIN file_scores
                /\ proof_response.metadata = run_result.value)

C19_Witness ==
    /\ pc = "raised"
    /\ run_result = Raise(ErrDate)
    /\ Cardinality(csv_files) = 2
    /\ Cardinality(DOMAIN scores) = 1
    /\ category_scores = EmptyDict
    /\ proof_response = NoResponse

\* the terms of the weighted sum that calculate_score forms for a file
TermsOf(file_name, metadata, cfg) ==
    CASE file_name = "Retail.CartItems.1.csv" -> cart_items_terms(metadata, cfg)
      [] file_name = "Digital Items.csv" -> digital_items_terms(metadata, cfg)
      [] file_name \in RetailFiles -> retail_order_history_terms(metadata, cfg)
      [] file_name = "Audible.PurchaseHistory.csv" ->
            audible_purchase_history_terms(metadata, cfg)
      [] file_name = "Audible.Library.csv" -> audible_library_terms(metadata, cfg)
      [] file_name = "Audible.MembershipBillings.csv" ->
            audible_membership_billings_terms(metadata, cfg)
      [] file_name = "PrimeVideo.ViewingHistory.csv" ->
            prime_video_viewing_history_terms(metadata, cfg)

RECURSIVE SumWeights(_)
SumWeights(terms) ==
    IF Len(terms) = 0 THEN 0 ELSE Head(terms)[2] + SumWeights(Tail(terms))

\* C20: for each of the 7 scoring functions the weights of the combined sum
\* add up to 1, every sub-term lies in [0, 1], and the score of a returned
\* ComponentScore lies in [0, 1], before and after the multiplication by
\* the time weight.
C20_ScoreInUnitRange ==
    ScoreReturned =>
       LET terms == TermsOf(call.file_name, call.metadata, validation_config[call.network])
           before == SumProducts(terms) \div 100
       IN  /\ SumWeights(terms) = 100
           /\ \A i \in 1..Len(terms) : 0 <= terms[i][1] /\ terms[i][1] <= ONE
           /\ 0 <= before /\ before <= ONE
           /\ ~returned.raised =>
                 /\ 0 <= returned.value.score
                 /\ returned.value.score <= ONE
                 /\ returned.value.score <= before

C20_Witness ==
    /\ ScoreReturned
    /\ call.file_name = "Retail.OrderHistory.1.csv"
    /\ call.metadata = OrderHistory(800, 100000, 50, 800, 10000, DateRange(-1830, -5))
    /\ call.network = "mainnet"
    /\ returned.value.score > 0
    /\ returned.value.score
          < SumProducts(TermsOf(call.file_name, call.metadata,
                                validation_config.mainnet)) \div 100

\* C21: for every category and every metadata without a date range, also
\* one whose counts meet every minimum, calculate_score returns a
\* ComponentScore without raising: the date-dependent sub-term is 0, the
\* score is 0 through the time weight and is_valid is false; and every ratio
\* term is 0 when its count denominator is 0.
C21_MissingDatesScoreZero ==
    (ScoreReturned /\ call.metadata.date_range = NoDateRange)
       => /\ ~returned.raised
          /\ returned.value.score = 0
          /\ returned.value.is_valid = FALSE

\* a cart file whose rows carry no date and whose counts meet the minima
MissingDatesRaise ==
    /\ ScoreReturned
    /\ call.file_name = "Retail.CartItems.1.csv"
    /\ call.metadata = CartItems(4, 3, 4, NoDateRange)
    /\ returned = Raise(ErrUnbound)

\* the part of C21 that holds: without a date range and with a count below
\* its minimum the score is 0 and nothing is raised, and a file without rows
\* has every term 0
MissingDatesBelowMinima ==
    (ScoreReturned /\ call.metadata.date_range = NoDateRange /\ ~returned.raised)
       => /\ returned.value.score = 0
          /\ returned.value.is_valid = FALSE

\* the scores of a run with every is_valid flag negated
FlipValidity(all_scores) ==
    [name \in DOMAIN all_scores |->
        [metadata_score |->
            [all_scores[name].metadata_score EXCEPT !.is_valid = ~@],
         validation_openai_score |->
            [all_scores[name].validation_openai_score EXCEPT !.is_valid = ~@]]]

\* C22: the Aggregator and the Codec never consult is_valid: in every
\* returned PackedRecord the byte pair of a processed category is
\* (floor(255 * metadata score), floor(255 * validation score)) whatever its
\* is_valid flags, and the record is the one obtained from the same scores
\* with the flags negated.
C22_ValidityNotConsulted ==
    pc \in {"done", "generated"}
       => /\ \A i \in 1..N :
                LET name == INTERESTING_FILES[i]
                    decoded == unpack_scores(run_result.value)
                IN  name \in DOMAIN scores
                       => /\ decoded[1][i] =
                                TruncDiv(255 * scores[name].metadata_score.score, ONE)
                          /\ decoded[2][i] =
                                TruncDiv(255 * scores[name].validation_openai_score.score, ONE)
          /\ run_result =
                post_process_scores(calculate_weighted_scores(FlipValidity(scores)))

\* a record was returned that encodes a non-zero byte for a category whose
\* ComponentScore is invalid
C22_Witness ==
    /\ pc = "done"
    /\ \E i \in 1..N :
          LET name == INTERESTING_FILES[i] IN
          /\ name \in DOMAIN scores
          /\ scores[name].metadata_score.is_valid = FALSE
          /\ scores[name].metadata_score.score > 0
          /\ unpack_scores(run_result.value)[1][i] > 0

\* the orders in which find_csv_files can list a set of paths
Orders(files) ==
    {order \in [1..Cardinality(files) -> files] :
        \A i, j \in 1..Cardinality(files) : i # j => order[i] # order[j]}

RECURSIVE ScoresInOrder(_, _)
\* the dictionary scores after "for csv_file in csv_files:
\* scores[csv_file.name] = process_single_file(csv_file, config)" has run
\* over the paths in the given order, per_file being what process_single_file
\* returns for each path
ScoresInOrder(order, per_file) ==
    IF Len(order) = 0 THEN EmptyDict
    ELSE LET before == ScoresInOrder(SubSeq(order, 1, Len(order) - 1), per_file)
             file == order[Len(order)]
         IN  [name \in DOMAIN before \cup {file.name} |->
                 IF name = file.name THEN per_file[file] ELSE before[name]]

\* C23: for the same set of discovered files with the same per-file scores,
\* proof_of_quality returns the same PackedRecord and the same score map
\* whatever the order in which the files are discovered and processed.
C23_OrderIndependent ==
    pc \in {"done", "generated"}
       => \A order \in Orders(csv_files) :
             LET weighted == calculate_weighted_scores(ScoresInOrder(order, file_scores))
             IN  /\ weighted = category_scores
                 /\ post_process_scores(weighted) = run_result

\* two sub-folders hold a file of the same name with different scores: the
\* record returned carries the scores of the one processed last
DuplicateNameLastWins ==
    /\ pc = "done"
    /\ \E first, last \in csv_files :
          /\ first # last
          /\ first.name = last.name
          /\ file_scores[first].metadata_score.score
                # file_scores[last].metadata_score.score
          /\ category_scores[last.name][1] = file_scores[last].metadata_score.score

\* the part of C23 that holds: when no two discovered files share a name,
\* the record and the score map do not depend on the order
DistinctNamesOrderIndependent ==
    (/\ pc \in {"done", "generated"}
     /\ \A f, g \in csv_files : f.name = g.name => f = g)
       => \A order \in Orders(csv_files) :
             LET weighted == calculate_weighted_scores(ScoresInOrder(order, file_scores))
             IN  /\ weighted = category_scores
                 /\ post_process_scores(weighted) = run_result

AnalyzeReturned == pc = "returned" /\ call.fn = "analyze_data"

\* a text that float() does not accept
NotANumber(text) == PyFloat(StripQuotes(text)).raised

RECURSIVE WithoutRow(_, _)
\* data without its row number i
WithoutRow(data, i) ==
    IF i = 1 THEN Tail(data) ELSE << Head(data) >> \o WithoutRow(Tail(data), i - 1)

\* C24: for every category, a row whose numeric field (amount, price,
\* quantity, seconds viewed) holds text that cannot be parsed as a number
\* contributes 0 to the aggregate and analyze_data still returns a
\* CategoryMetadata instead of raising.
C24_ParseFailureNonFatal ==
    AnalyzeReturned
       => /\ ~returned.raised
          /\ \A i \in 1..Len(call.data) :
                LET without == analyze_data(call.file_name, WithoutRow(call.data, i))
                IN  /\ NotANumber(call.data[i].amount)
                       => returned.value.total_amount = without.value.total_amount
                    /\ NotANumber(call.data[i].quantity)
                       => returned.value.total_quantity = without.value.total_quantity

\* an order history whose one row has the Quantity "abc"
QuantityTextRaises ==
    /\ AnalyzeReturned
    /\ call.file_name = "Retail.OrderHistory.1.csv"
    /\ call.data = << [amount |-> << "3" >>, quantity |-> << "a", "b", "c" >>] >>
    /\ returned = Raise(ErrIntLiteral)

\* the part of C24 that holds: an amount text that is no number contributes
\* 0 to the amount total in every category, and the cart analyzer skips a
\* Quantity that is not made of digits
AmountTextContributesZero ==
    (AnalyzeReturned /\ ~returned.raised)
       => \A i \in 1..Len(call.data) :
             LET without == analyze_data(call.file_name, WithoutRow(call.data, i))
             IN  /\ ~without.raised
                 /\ NotANumber(call.data[i].amount)
                       => returned.value.total_amount = without.value.total_amount
                 /\ NotANumber(call.data[i].quantity)
                       => returned.value.total_quantity = without.value.total_quantity

\* only the order-history analyzer raises on a numeric field
OnlyOrderHistoryRaises ==
    (AnalyzeReturned /\ returned.raised)
       => /\ call.file_name \in RetailFiles
          /\ returned.error = ErrIntLiteral

\* C25: a configuration error (a network name without a profile) is raised
\* before any category file is read or scored and before any evaluator call,
\* and in every run, also one that finds no recognized category file: such a
\* run never returns, never scores a file, never calls the evaluator, and
\* its quality pass ends with no other exception than the configuration
\* error.
C25_ConfigErrorFatalAtStartup ==
    config.network \notin Networks
       => /\ pc \notin {"validate_sample", "done", "generated"}
          /\ scores = EmptyDict
          /\ run_result.raised => run_result = Raise(ErrNetwork)

\* a run with an unknown network name and no category file returns a
\* ProofResponse
ConfigErrorUnnoticed ==
    /\ config.network \notin Networks
    /\ csv_files = {}
    /\ pc = "generated"
    /\ proof_response # NoResponse

\* a run with an unknown network name ends with the error of a file that was
\* read and analyzed before the configuration was looked up
ConfigErrorAfterAnalysis ==
    /\ config.network \notin Networks
    /\ pc = "raised"
    /\ run_result = Raise(ErrDate)

\* the part of C25 that holds: with an unknown network name no file is scored
\* and the evaluator is never called, and a run that finds a file does not
\* return
ConfigErrorBeforeScoring ==
    config.network \notin Networks
       => /\ pc # "validate_sample"
          /\ scores = EmptyDict
          /\ (csv_files # {} => pc \notin {"done", "generated"})

\* the length of the sample of the file being validated
SampleOf(rows) ==
    Min2(Min2(get_validation_config(config).SAMPLE_SIZE, rows), MaxSampleRows)

FewerRowsThanSampleSize ==
    /\ pc = "validate_sample"
    /\ config.network = "mainnet"
    /\ file_data = 3
    /\ sample_size = 3
    /\ Len(sample_scores) = 2

\* C27: the ProofResponse returned by Proof.generate embeds both results of
\* proof_of_quality: the PackedRecord hex string in metadata and the raw
\* per-category float map in attributes.category_scores.
C27_ResponseEmbedsBothResults ==
    pc = "generated"
       => /\ proof_response.metadata = run_result.value
          /\ proof_response.attributes.category_scores.json = "object"
          /\ proof_response.attributes.category_scores.value = category_scores

\* a response whose run scored a file above 0 carries the number 0 in
\* attributes.category_scores
FloatMapDropped ==
    /\ pc = "generated"
    /\ \E name \in DOMAIN category_scores : category_scores[name][1] > 0
    /\ proof_response.attributes.category_scores = JsonNumber(0)

\* the part of C27 that holds: metadata is the PackedRecord
ResponseEmbedsPackedRecord ==
    pc = "generated" => proof_response.metadata = run_result.value

\* C28: in every ProofResponse returned by Proof.generate, valid is true
\* exactly when authenticity = 1 and uniqueness = 1, ownership equals
\* authenticity, and score and quality are 0: valid is fixed by the results
\* of proof_of_authenticity and proof_of_uniqueness alone, whatever the
\* quality pass returned.
C28_ValidIgnoresQuality ==
    pc = "generated"
       => /\ proof_response.authenticity = authenticity.value
          /\ proof_response.uniqueness = uniqueness.value
          /\ proof_response.ownership = proof_response.authenticity
          /\ proof_response.valid
                = (proof_response.authenticity = 1 /\ proof_response.uniqueness = 1)
          /\ proof_response.score = 0
          /\ proof_response.quality = 0

\* a valid response of a run that found no category file, its record all
\* zeros
C28_Witness ==
    /\ pc = "generated"
    /\ proof_response.valid
    /\ csv_files = {}
    /\ \A i \in 1..Len(proof_response.metadata) : proof_response.metadata[i] = "0"

\* a response that is not valid although its run scored a category above 0
InvalidWithScores ==
    /\ pc = "generated"
    /\ ~proof_response.valid
    /\ \E name \in DOMAIN category_scores : category_scores[name][1] > 0

\* proof_of_authenticity or proof_of_uniqueness returned 0 or 1
ReturnedBinary(result) == ~result.raised /\ result.value \in Binary

\* C29: Proof.generate runs authenticity, then uniqueness, then quality; the
\* fingerprint is saved with the remote service at most once per run, only
\* by a proof_of_uniqueness that returns 1, only after proof_of_authenticity
\* has returned without raising, and before any category file is scored; a
\* saved fingerprint stays saved whatever authenticity was and however the
\* quality pass ends.
C29_SideEffectOrder ==
    /\ [](pc = "proof_of_authenticity"
             => authenticity = NotCalled /\ uniqueness = NotCalled)
    /\ [](pc = "proof_of_uniqueness"
             => ReturnedBinary(authenticity) /\ uniqueness = NotCalled)
    /\ [](uniqueness # NotCalled => ReturnedBinary(authenticity))
    /\ []((file_scores # EmptyDict \/ run_result # NoResult
           \/ pc \in {"proof_of_quality", "validate_sample", "done", "generated"})
             => ReturnedBinary(authenticity) /\ ReturnedBinary(uniqueness))
    /\ [](saved_minhashes \in {0, 1})
    /\ [](saved_minhashes = 1 <=> uniqueness = Ok(1))
    /\ [][saved_minhashes' # saved_minhashes
             => /\ pc = "proof_of_uniqueness"
                /\ saved_minhashes' = saved_minhashes + 1
                /\ ReturnedBinary(authenticity)
                /\ uniqueness' = Ok(1)
                /\ file_scores' = EmptyDict
                /\ run_result' = NoResult]_vars

\* a run whose authenticity is 0 and whose quality pass raised has saved its
\* fingerprint
C29_Witness ==
    /\ pc = "raised"
    /\ run_result.raised
    /\ authenticity = Ok(0)
    /\ uniqueness = Ok(1)
    /\ saved_minhashes = 1

\* a run in which client.save_minhash raised: proof_of_uniqueness raises and
\* the quality pass never starts
SaveFailureAbortsRun ==
    /\ pc = "raised"
    /\ uniqueness = Raise(ErrHTTP)
    /\ saved_minhashes = 0
    /\ run_result = NoResult

\* a metadata of a file without rows
OfEmptyFile(file_name, metadata) == RowCount(file_name, metadata) = 0

\* C30: under both shipped profiles process_single_file never calls
\* validate_sample with an empty row list: calculate_score gives every file
\* without rows is_valid = false without raising, so validation is skipped,
\* every sample holds at least one row, and the division by the number of
\* scored rows never divides by zero. The scores of the empty files of all
\* file types do not depend on the run and are looked at when it starts.
C30_NoEmptySample ==
    /\ pc = "validate_sample" => (file_data >= 1 /\ sample_size >= 1)
    /\ run_result.error # AverageResult(<< >>, validation_config["satori"]).error
    /\ pc = "proof_of_authenticity"
          => \A name \in FileNames, network \in Networks :
                \A metadata \in {m \in Metadatas(name) : OfEmptyFile(name, m)} :
                   LET scored == calculate_score(name, metadata,
                                                 validation_config[network])
                   IN  ~scored.raised /\ scored.value.is_valid = FALSE

\* with OPENAI_API_KEY set, a file without rows was stored without
\* validation and without an evaluator reply
C30_Witness ==
    /\ pc = "proof_of_quality"
    /\ config.has_key
    /\ score_json = NoReply
    /\ \E file \in DOMAIN file_scores :
       \E metadata \in Metadatas(file.name) :
          /\ OfEmptyFile(file.name, metadata)
          /\ file_scores[file].metadata_score
                = calculate_score(file.name, metadata, get_validation_config(config)).value
          /\ file_scores[file].validation_openai_score = NoValidation

====
